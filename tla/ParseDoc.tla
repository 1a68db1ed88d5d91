------------------------------ MODULE ParseDoc ------------------------------
(***************************************************************************)
(* Who owns what through the life of a parsed document (parse.c): the      *)
(* routes of yeptris_parse_ex (lazy, over the packed record tape),         *)
(* yeptris_parse_eager_ex, yeptris_parse_json and yep_parse_events, the    *)
(* materialization of a deferred tree by yep_doc_dom, and                  *)
(* yeptris_document_free, with every allocation failing or succeeding.     *)
(* One thread, one document at a time; a step runs from one fallible call  *)
(* to the next.                                                            *)
(*                                                                         *)
(* heap is the set of live allocations and ptr what each pointer variable  *)
(* and document field holds; freeing leaves the pointer as it was unless   *)
(* the code resets it, as in C.                                            *)
(***************************************************************************)
EXTENDS Naturals

CONSTANTS
  MayFail,    \* the allocation sites that may fail, subset of Sites
  Calls       \* bound: parse calls made

Sites == {"eng", "tree", "words", "doc_eager", "doc_lazy", "box", "box_pool", "jsonbox", "replay"}

NULL == "NULL"
Alloc == {"copy", "norm", "eng", "tree", "words", "box", "pool", "nbuf", "doc"}
Pointer == {"transcoded", "eng", "dom", "words", "finish", "nbuf", "ytpool", "box", "doc",
            "doc.dom", "doc.tape", "doc.words", "doc.finish", "doc.transcoded"}
Fields == {"doc.dom", "doc.tape", "doc.words", "doc.finish", "doc.transcoded"}

VARIABLES
  pc,       \* the next step of the call, or "idle"
  route,    \* what the call was asked for, a member of Route
  heap, ptr,
  refs,     \* the allocations the tape or the tree points into
  fault,    \* something was freed twice
  status,   \* the host's *status, which a parsed document may leave unwritten
  tls,      \* the thread's error slot: "none" or the class of the message
  calls

vars == <<pc, route, heap, ptr, refs, fault, status, tls, calls>>

Route == {"lazy", "eager", "json", "events"}
lazy == route = "lazy"

AllNull == [p \in Pointer |-> NULL]

Init ==
  /\ pc = "idle" /\ route = "eager"
  /\ heap = {} /\ ptr = AllNull /\ refs = {} /\ fault = FALSE
  /\ status = "ok" /\ tls = "none" /\ calls = 0

-----------------------------------------------------------------------------
(* malloc and free.                                                        *)

Fails(site) == site \in MayFail
Targets(ps) == {ptr[p] : p \in ps} \ {NULL}

\* Two of the pointers ps hold one allocation.
Aliased(ps) == \E p, q \in ps : p # q /\ ptr[p] = ptr[q] /\ ptr[p] # NULL

\* The pointers ps are freed, and dangle until something resets them.
Free(ps) ==
  /\ heap' = heap \ Targets(ps)
  /\ fault' = (fault \/ ~(Targets(ps) \subseteq heap) \/ Aliased(ps))

\* p receives a new allocation a.
New(p, a) ==
  /\ heap' = heap \union {a}
  /\ ptr' = [ptr EXCEPT ![p] = a]
  /\ UNCHANGED fault

\* The exits: a status with NULL, or a document.
Fail(ps, st, msg) ==
  /\ Free(ps)
  /\ ptr' = AllNull
  /\ refs' = {}
  /\ pc' = "idle"
  /\ status' = st
  /\ tls' = msg
  /\ UNCHANGED <<route, calls>>

Go(next) == pc' = next /\ UNCHANGED <<status, tls, calls>>

-----------------------------------------------------------------------------
(* The entry points.                                                       *)

NoDocument == ptr["doc"] = NULL

\* yeptris_parse_ex, yeptris_parse_eager_ex and yep_parse_events.
Parse ==
  /\ pc = "idle" /\ NoDocument /\ calls < Calls
  /\ route' \in Route \ {"json"}
  /\ pc' = "front"
  /\ calls' = calls + 1
  /\ UNCHANGED <<heap, ptr, refs, fault, status, tls>>

\* yeptris_parse_json, up to its clean walk.
ParseJson ==
  /\ pc = "idle" /\ NoDocument /\ calls < Calls
  /\ calls' = calls + 1
  /\ route' = "json"
  /\ \/ Fails("jsonbox") /\ pc' = "idle" /\ status' = "memory"
        /\ UNCHANGED <<heap, ptr, fault>>
     \/ New("box", "box") /\ pc' = "walk" /\ UNCHANGED status
     \/ pc' = "strict" /\ UNCHANGED <<heap, ptr, fault, status>>
  /\ UNCHANGED <<refs, tls>>

\* The walk fills the tape; a wrapped tape is the document's, a rejected one
\* is freed and the strict sequence decides.
JsonWalk ==
  /\ pc = "walk"
  /\ \/ /\ heap' = heap \union {"doc", "words"}
        /\ ptr' = [AllNull EXCEPT !["doc"] = "doc", !["doc.tape"] = "box", !["doc.words"] = "words"]
        /\ pc' = "idle" /\ status' = "ok"
        /\ UNCHANGED <<fault, tls, calls>>
     \/ /\ Free({"box"})
        /\ ptr' = AllNull
        /\ Go("strict")
  /\ UNCHANGED <<route, refs>>

JsonStrict ==
  /\ pc = "strict"
  /\ \/ Fail({}, "parse", "parse")
     \/ Fail({}, "encoding", "encoding")
     \/ Fails("tree") /\ Fail({}, "memory", tls)
     \/ New("dom", "tree") /\ Go("build") /\ UNCHANGED <<route, refs>>


\* yep_dom_build_json, then yep_json_doc_wrap; a disagreement with the
\* validator goes to the engine.
JsonBuild ==
  /\ pc = "build"
  /\ \/ Fails("tree") /\ Fail({"dom"}, "memory", tls)
     \/ Fails("doc_eager") /\ Fail({"dom"}, "memory", tls)
     \/ /\ Free({"dom"})
        /\ ptr' = AllNull
        /\ Go("front")
        /\ UNCHANGED <<route, refs>>
     \/ /\ heap' = heap \union {"doc"}
        /\ ptr' = [AllNull EXCEPT !["doc"] = "doc", !["doc.dom"] = "tree"]
        /\ pc' = "idle" /\ status' = "ok"
        /\ UNCHANGED <<route, refs, fault, tls, calls>>

-----------------------------------------------------------------------------
(* parse_impl.                                                             *)

\* parse_frontend: the engine's bytes are the caller's, a transcoded copy, or
\* a copy with the Unicode breaks normalized (which replaces the other).
Frontend ==
  /\ pc = "front"
  /\ \/ UNCHANGED <<heap, ptr, fault>> /\ Go("engine") /\ UNCHANGED <<route, refs>>
     \/ /\ route # "json"
        /\ \E a \in {"copy", "norm"} : New("transcoded", a)
        /\ Go("engine")
        /\ UNCHANGED <<route, refs>>
     \/ route # "json" /\ Fail({}, "encoding", "encoding")

CreateEngine ==
  /\ pc = "engine"
  /\ \/ Fails("eng") /\ Fail({"transcoded"}, "memory", tls)
     \/ New("eng", "eng") /\ Go("sink") /\ UNCHANGED <<route, refs>>

\* ytap_init or yep_dom_create; the events go to the caller's sink.
CreateSink ==
  /\ pc = "sink"
  /\ \/ route # "events" /\ Fails(IF lazy THEN "words" ELSE "tree") /\ Fail({"eng", "transcoded"}, "memory", tls)
     \/ /\ \/ lazy /\ New("words", "words")
           \/ route = "events" /\ UNCHANGED <<heap, ptr, fault>>
           \/ route \in {"eager", "json"} /\ New("dom", "tree")
        /\ Go("run")
        /\ UNCHANGED <<route, refs>>

\* ytap_flow_rooted and ytap_fused_run own the whole document; the engine
\* never runs.  The fused runner may hand over a pool of its own.
RunTape ==
  /\ pc = "run" /\ lazy
  /\ \E pooled \in BOOLEAN :
       /\ heap' = (heap \ {"eng"}) \union (IF pooled THEN {"pool"} ELSE {})
       /\ ptr' = [ptr EXCEPT !["eng"] = NULL, !["ytpool"] = IF pooled THEN "pool" ELSE NULL]
       /\ refs' = Targets({"transcoded"}) \union (IF pooled THEN {"pool"} ELSE {})
  /\ Go("wrap")
  /\ UNCHANGED <<route, fault>>

\* The status for the engine's error, and the message copied to the slot; a
\* clean channel under a failed run is the sink's failure: memory.
RunErrors == {<<"parse", "parse">>, <<"depth", "depth">>, <<"memory", "memory">>, <<"memory", "none">>}

\* Mutant: the tree of a failed run is forgotten.
RunFails_KeepsTree ==
  /\ pc = "run"
  /\ \E c \in RunErrors :
       Fail({"words", "eng", "transcoded"}, c[1], c[2])

RunFails ==
  /\ pc = "run"
  /\ \E c \in RunErrors :
       Fail({"words", "dom", "eng", "transcoded"}, c[1], c[2])

\* The engine's finish pool and its break-normalized copy, if the run made
\* one, are detached before the engine is destroyed.  The tape's spans point
\* into the pool and into whichever buffer the run parsed; the tree copies
\* from both, but for views of the caller's or the transcoded bytes.
RunEngine ==
  /\ pc = "run" /\ route # "events"
  /\ \E renormed \in BOOLEAN :
       /\ heap' = (heap \ {"eng"}) \union {"pool"} \union (IF renormed THEN {"nbuf"} ELSE {})
       /\ ptr' = [ptr EXCEPT !["eng"] = NULL, !["finish"] = "pool",
                             !["nbuf"] = IF renormed THEN "nbuf" ELSE NULL]
       /\ refs' = IF lazy THEN {"pool"} \union
                                 (IF renormed THEN {"nbuf"} ELSE Targets({"transcoded"}))
                  ELSE Targets({"transcoded"})
  /\ Go("settle")
  /\ UNCHANGED <<route, fault>>

\* The pool and the engine's copy die with the run.
RunEvents ==
  /\ pc = "run" /\ route = "events"
  /\ Fail({"eng", "transcoded"}, "ok", tls)

\* No document in the stream: NULL with OK.  Else the eager route is done
\* with the pool.
Settle ==
  /\ pc = "settle"
  /\ \/ Fail({"words", "dom", "finish", "transcoded", "nbuf"}, "ok", tls)
     \/ /\ Free(IF lazy THEN {} ELSE {"finish"})
        /\ ptr' = IF lazy THEN ptr ELSE [ptr EXCEPT !["finish"] = NULL]
        /\ Go("wrap")
        /\ UNCHANGED <<route, refs>>

\* The document; a failure frees everything but the tape.
AllocDoc ==
  /\ pc = "wrap"
  /\ \/ /\ Fails(IF lazy THEN "doc_lazy" ELSE "doc_eager")
        /\ Fail({"dom", "finish", "transcoded", "nbuf"}, "memory", tls)
     \/ New("doc", "doc") /\ Go("park") /\ UNCHANGED <<route, refs>>

\* Mutant: the document does not take the normalized copy.
ParkBuffers_FreesBoth ==
  /\ pc = "park"
  /\ Free({"transcoded", "nbuf"})
  /\ ptr' = [ptr EXCEPT !["transcoded"] = NULL]
  /\ Go("fill")
  /\ UNCHANGED <<route, refs>>

\* The document keeps the buffer the spans point into: the normalized copy on
\* the lazy route, where nothing refers to the transcoded one any more.
ParkBuffers ==
  /\ pc = "park"
  /\ LET rebased == lazy /\ ptr["nbuf"] # NULL
     IN  /\ Free(IF ptr["nbuf"] = NULL THEN {} ELSE IF lazy THEN {"transcoded"} ELSE {"nbuf"})
         /\ ptr' = [ptr EXCEPT !["doc.transcoded"] = IF rebased THEN ptr["nbuf"] ELSE ptr["transcoded"],
                               !["transcoded"] = IF rebased THEN NULL ELSE @]
  /\ Go("fill")
  /\ UNCHANGED <<route, refs>>

BoxSite == IF ptr["ytpool"] # NULL THEN "box_pool" ELSE "box"

\* The tape moves to the heap, or the tree to the document.
FillDoc ==
  /\ pc = "fill"
  /\ \/ /\ lazy /\ Fails(BoxSite)
        /\ Fail({"words", "finish", "transcoded", "nbuf", "doc"}, "memory", tls)
     \/ /\ lazy
        /\ heap' = heap \union {"box"}
        /\ ptr' = [AllNull EXCEPT
                     !["doc"] = "doc", !["doc.transcoded"] = ptr["doc.transcoded"],
                     !["doc.tape"] = "box", !["doc.words"] = ptr["words"],
                     !["doc.finish"] = IF ptr["finish"] = NULL THEN ptr["ytpool"] ELSE ptr["finish"]]
        /\ Go("idle")
        /\ UNCHANGED <<route, refs, fault>>
     \/ /\ ~lazy
        /\ ptr' = [AllNull EXCEPT
                     !["doc"] = "doc", !["doc.transcoded"] = ptr["doc.transcoded"],
                     !["doc.dom"] = ptr["dom"]]
        /\ Go("idle")
        /\ UNCHANGED <<route, heap, refs, fault>>

-----------------------------------------------------------------------------
(* The document.                                                           *)

\* yep_doc_dom: the first access replays the tape into a tree and releases
\* tape and pool; a replay that fails leaves them for the next access.
Materialize ==
  /\ pc = "idle" /\ ptr["doc.dom"] = NULL /\ ptr["doc.tape"] # NULL
  /\ \/ Fails("replay") /\ UNCHANGED <<heap, ptr, refs, fault>>
     \/ /\ heap' = (heap \ Targets({"doc.tape", "doc.words", "doc.finish"})) \union {"tree"}
        /\ fault' = (fault \/ ~(Targets({"doc.tape", "doc.words", "doc.finish"}) \subseteq heap))
        /\ ptr' = [ptr EXCEPT !["doc.dom"] = "tree", !["doc.tape"] = NULL, !["doc.words"] = NULL,
                              !["doc.finish"] = NULL]
        /\ refs' = refs \ Targets({"doc.finish"})
  /\ UNCHANGED <<pc, route, status, tls, calls>>

\* yeptris_document_free.
FreeDocument ==
  /\ pc = "idle" /\ ~NoDocument
  /\ Free(Fields \union {"doc"})
  /\ ptr' = AllNull /\ refs' = {}
  /\ UNCHANGED <<pc, route, status, tls, calls>>

\* yeptris_push_parse clears the slot at its entry and succeeds.
PushParse ==
  /\ pc = "idle" /\ NoDocument
  /\ status' = "ok" /\ tls' = "none"
  /\ UNCHANGED <<pc, route, heap, ptr, refs, fault, calls>>

Next ==
  \/ Parse \/ ParseJson \/ JsonWalk \/ JsonStrict \/ JsonBuild
  \/ Frontend \/ CreateEngine \/ CreateSink \/ RunTape \/ RunFails \/ RunEngine \/ RunEvents
  \/ Settle \/ AllocDoc \/ ParkBuffers \/ FillDoc
  \/ Materialize \/ FreeDocument \/ PushParse

\* A call that has begun runs on; the host may stop between calls.
InCall == pc # "idle" /\ Next

Spec == Init /\ [][Next]_vars /\ WF_vars(InCall)

-----------------------------------------------------------------------------
(* Properties.                                                             *)

\* Pointers hold live kinds of allocation or NULL, and the codes that reach
\* the host are public ones (parse.c:583-604).
TypeOK ==
  /\ pc \in {"idle", "walk", "strict", "build", "front", "engine", "sink", "run", "settle",
             "wrap", "park", "fill"}
  /\ route \in Route /\ fault \in BOOLEAN
  /\ heap \in SUBSET Alloc
  /\ ptr \in [Pointer -> Alloc \union {NULL}]
  /\ refs \in SUBSET Alloc
  /\ status \in {"ok", "parse", "depth", "encoding", "memory"}
  /\ tls \in {"none", "parse", "depth", "encoding", "memory"}
  /\ calls \in 0 .. Calls

\* One call releases everything (parse.h:22-23): between calls every live
\* allocation is the document or hangs from one of its fields, and without a
\* document nothing is allocated, whichever allocation failed on the way.
EverythingOwned ==
  pc = "idle" => heap = Targets(Fields \union {"doc"})

\* No path frees an allocation twice, counting the fields the document and
\* the tape share (the pool, the normalized copy).
NothingFreedTwice == ~fault

\* The bytes that the tape's spans or the tree's borrowed views point into
\* live as long as the document ("DOM and tape scalar slices point INTO it,
\* so the document must own it", parse.c:462-465).
BytesOutliveViews ==
  pc = "idle" /\ ~NoDocument => refs \subseteq heap

\* A document has its tree or the tape that can still become one, so that a
\* failed materialization can be retried (parse.c:92-95, 109-113).
TreeOrTape ==
  pc = "idle" /\ ~NoDocument => (ptr["doc.dom"] = NULL) # (ptr["doc.tape"] = NULL)

\* The three of an owner: nothing is lost, nothing is freed twice, and the document is never
\* without the means to answer.
OwnedOnce == TypeOK /\ EverythingOwned /\ NothingFreedTwice /\ TreeOrTape

\* "Returns "" when the last operation succeeded" (error.h:32-34).
ErrorIsCurrent ==
  pc = "idle" /\ ~NoDocument => tls = "none"

-----------------------------------------------------------------------------
(* The inductive form.                                                     *)

\* What each pointer may hold.
Kinds ==
  /\ ptr["transcoded"] \in {NULL, "copy", "norm"}
  /\ ptr["eng"] \in {NULL, "eng"}
  /\ ptr["dom"] \in {NULL, "tree"} /\ ptr["doc.dom"] \in {NULL, "tree"}
  /\ ptr["words"] \in {NULL, "words"} /\ ptr["doc.words"] \in {NULL, "words"}
  /\ ptr["finish"] \in {NULL, "pool"} /\ ptr["ytpool"] \in {NULL, "pool"}
  /\ ptr["doc.finish"] \in {NULL, "pool"}
  /\ ptr["nbuf"] \in {NULL, "nbuf"}
  /\ ptr["box"] \in {NULL, "box"} /\ ptr["doc.tape"] \in {NULL, "box"}
  /\ ptr["doc"] \in {NULL, "doc"}
  /\ ptr["doc.transcoded"] \in {NULL, "copy", "norm", "nbuf"}

\* The two allocations of the lazy wrapper, whose failure loses the tape, the boxed pool or
\* both (parse.c:640-649, 687-697).
LazyWrapperFits == MayFail \intersect {"doc_lazy", "box_pool"} = {}

\* The pointers ps hold live allocations, all others are NULL, and nothing else is live
\* unless a wrapper failed.
Only(ps) ==
  /\ \A p \in Pointer \ ps : ptr[p] = NULL
  /\ Targets(ps) \subseteq heap
  /\ LazyWrapperFits => heap \subseteq Targets(ps)

Built == {"words", "dom", "finish", "transcoded", "nbuf"}

\* The document has taken one of the two buffers; the other is gone, and on the eager route
\* its pointer dangles.
Parked ==
  LET kept == {"words", "dom", "finish", "ytpool", "doc", "doc.transcoded"}
  IN  /\ \A p \in Fields \ {"doc.transcoded"} : ptr[p] = NULL
      /\ ptr["eng"] = NULL /\ ptr["box"] = NULL
      /\ Targets(kept) \subseteq heap
      /\ LazyWrapperFits => heap \subseteq Targets(kept)
      /\ ptr["doc.transcoded"] = IF lazy /\ ptr["nbuf"] # NULL THEN ptr["nbuf"] ELSE ptr["transcoded"]
      /\ lazy /\ ptr["nbuf"] # NULL => ptr["transcoded"] = NULL

\* What the steps of a call have allocated on the way to each other.
Holding ==
  /\ pc = "idle" => Only(Fields \union {"doc"})
  /\ pc = "walk" => Only({"box"})
  /\ pc \in {"strict", "front"} => Only({})
  /\ pc = "build" => Only({"dom"})
  /\ pc = "engine" => Only({"transcoded"})
  /\ pc = "sink" => Only({"transcoded", "eng"})
  /\ pc = "run" => Only({"transcoded", "eng", "words", "dom"})
  /\ pc = "settle" => Only(Built)
  /\ pc = "wrap" => Only(Built \union {"ytpool"})
  /\ pc = "park" => Only(Built \union {"ytpool", "doc"})
  /\ pc = "fill" => Parked

\* The route decides between tape and tree, and the pool has one owner.
Routed ==
  /\ pc \in {"walk", "strict", "build"} => route = "json"
  /\ pc = "walk" => ptr["box"] = "box"
  /\ pc = "build" => ptr["dom"] = "tree"
  /\ pc \in {"run", "settle", "wrap", "park", "fill"} =>
       /\ lazy => ptr["dom"] = NULL /\ ptr["words"] = "words"
       /\ ~lazy => ptr["words"] = NULL /\ ptr["ytpool"] = NULL
       /\ ~lazy => ptr["dom"] = IF route = "events" THEN NULL ELSE "tree"
  /\ pc \in {"settle", "wrap", "park", "fill"} => route # "events"
  /\ pc \in {"park", "fill"} => ptr["doc"] = "doc"
  /\ pc \in {"wrap", "park", "fill"} =>
       /\ ~lazy => ptr["finish"] = NULL
       /\ ptr["finish"] = NULL \/ ptr["ytpool"] = NULL
  /\ pc = "idle" =>
       /\ NoDocument => \A p \in Fields : ptr[p] = NULL
       /\ ptr["doc.dom"] # NULL => ptr["doc.tape"] = NULL
       /\ ~NoDocument => ptr["doc.dom"] # NULL \/ ptr["doc.tape"] # NULL

\* What the views point into is still to be handed to the document.
Borrowed ==
  /\ pc \in {"walk", "strict", "build", "front", "engine", "sink", "run"} => refs = {}
  /\ pc \in {"settle", "wrap", "park"} =>
       refs \subseteq IF lazy /\ ptr["nbuf"] # NULL THEN Targets({"finish", "ytpool", "nbuf"})
                      ELSE IF lazy THEN Targets({"finish", "ytpool", "transcoded"})
                      ELSE Targets({"transcoded"})
  /\ pc = "fill" => refs \subseteq Targets({"finish", "ytpool", "doc.transcoded"})
  /\ pc = "fill" /\ ~lazy => refs \subseteq Targets({"doc.transcoded"})
  /\ pc = "idle" => refs \subseteq Targets({"doc.finish", "doc.transcoded"})

\* Each pointer holds its kind, each step what it has allocated, and nothing was freed twice.
OwnershipInv == TypeOK /\ NothingFreedTwice /\ Kinds /\ Holding /\ Routed /\ Borrowed


=============================================================================

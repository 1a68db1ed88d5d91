--------------------------- MODULE ParseDocProofs ---------------------------
(***************************************************************************)
(* Proofs about ParseDoc, for any number of parse calls and any set of     *)
(* allocation sites that fail.  OwnershipInv says for each step of a call  *)
(* which pointers hold live allocations; it is inductive.  What the host   *)
(* sees between two calls follows from it.                                 *)
(***************************************************************************)
EXTENDS ParseDoc, TLAPS

Codes == {"ok", "parse", "depth", "encoding", "memory"}
Messages == {"none", "parse", "depth", "encoding", "memory"}

\* Without pointers there is nothing to free (the exits that call yep_free with nothing yet
\* allocated, parse.c:373-387).
LEMMA FreeNone ==
  Targets({}) = {} /\ ~Aliased({})
BY DEF Targets, Aliased

\* Fail's cleanup is complete when the pointers it frees are live, apart, and everything the
\* call has allocated (parse_impl's goto fail arms).
LEMMA FailInv ==
  ASSUME OwnershipInv,
         NEW ps \in SUBSET Pointer, NEW st \in Codes, NEW msg \in Messages,
         Fail(ps, st, msg),
         Targets(ps) \subseteq heap, ~Aliased(ps),
         LazyWrapperFits => heap \subseteq Targets(ps)
  PROVE  OwnershipInv'
<1>1. TypeOK'
  BY DEF NULL, OwnershipInv, TypeOK, Fail, Free, AllNull, Aliased, Codes, Messages
<1>2. NothingFreedTwice'
  BY DEF OwnershipInv, NothingFreedTwice, Fail, Free
<1>3. /\ \A p \in Pointer : ptr'[p] = NULL
      /\ pc' = "idle" /\ refs' = {}
  BY DEF Fail, AllNull
<1>4. Kinds' /\ Routed'
  BY <1>3 DEF NULL, Kinds, Routed, NoDocument, Pointer, Fields
<1>5. LazyWrapperFits => heap' = {}
  BY DEF Fail, Free
<1>6. Holding' /\ Borrowed'
  BY <1>3, <1>5 DEF NULL, Holding, Only, Targets, Fields, Pointer, Borrowed, LazyWrapperFits
<1> QED
  BY <1>1, <1>2, <1>4, <1>6 DEF OwnershipInv

\* The entry points allocate nothing before the front end (yeptris_parse_ex,
\* yeptris_parse_eager_ex, yep_parse_events).
LEMMA ParseInv ==
  ASSUME Calls \in Nat, OwnershipInv, Parse
  PROVE  OwnershipInv'
<1>1. TypeOK' /\ NothingFreedTwice' /\ Kinds'
  BY DEF NULL, OwnershipInv, TypeOK, Parse, Route, NothingFreedTwice, Kinds
<1>2. \A p \in Pointer : ptr[p] = NULL
  BY DEF NULL, OwnershipInv, Parse, Holding, Only, Routed, NoDocument, Fields, Pointer
<1>3. Holding' /\ Routed' /\ Borrowed'
  BY <1>2 DEF NULL, OwnershipInv, Parse, Holding, Only, Targets, NoDocument, Routed, Borrowed,
             Fields, Pointer, LazyWrapperFits
<1> QED
  BY <1>1, <1>3 DEF OwnershipInv

\* The pointers of a call that holds nothing are typed.
LEMMA AllNullTyped ==
  AllNull \in [Pointer -> Alloc \union {NULL}]
BY DEF AllNull

\* malloc sets one pointer (yep_alloc and the create functions).
LEMMA NewFacts ==
  ASSUME TypeOK, NEW p \in Pointer, NEW a \in Alloc, New(p, a)
  PROVE  /\ heap' = heap \union {a} /\ fault' = fault
         /\ ptr'[p] = a /\ (\A q \in Pointer \ {p} : ptr'[q] = ptr[q])
         /\ heap' \in SUBSET Alloc /\ ptr' \in [Pointer -> Alloc \union {NULL}]
BY DEF TypeOK, New

\* The JSON tape's box is the only allocation before the walk (yeptris_parse_json).
LEMMA ParseJsonInv ==
  ASSUME Calls \in Nat, OwnershipInv, ParseJson
  PROVE  OwnershipInv'
<1>1. (\A p \in Pointer : ptr[p] = NULL) /\ (LazyWrapperFits => heap = {}) /\ refs = {}
  BY DEF NULL, OwnershipInv, ParseJson, Holding, Only, Routed, NoDocument, Fields, Pointer, Targets,
         Borrowed
<1>2. CASE UNCHANGED <<heap, ptr, fault>> /\ pc' \in {"idle", "strict"} /\ status' \in Codes
  BY <1>1, <1>2 DEF NULL, OwnershipInv, ParseJson, Holding, Only, Targets, NoDocument, Routed, Codes,
             Borrowed, Fields, Pointer, LazyWrapperFits, TypeOK, NothingFreedTwice, Kinds, Route
<1>3. CASE New("box", "box") /\ pc' = "walk" /\ UNCHANGED status
  <2>1. "box" \in Pointer /\ "box" \in Alloc
    BY DEF Pointer, Alloc
  <2>2. /\ heap' = heap \union {"box"} /\ fault' = fault
        /\ ptr'["box"] = "box" /\ (\A q \in Pointer \ {"box"} : ptr'[q] = ptr[q])
        /\ heap' \in SUBSET Alloc /\ ptr' \in [Pointer -> Alloc \union {NULL}]
    BY <1>3, <2>1, NewFacts DEF OwnershipInv
  <2>3. TypeOK' /\ NothingFreedTwice'
    BY <1>3, <2>2 DEF OwnershipInv, TypeOK, ParseJson, Route, NothingFreedTwice
  <2>4. Kinds' /\ Holding' /\ Routed' /\ Borrowed'
    BY <1>1, <1>3, <2>2 DEF NULL, ParseJson, Kinds, Holding, Only, Targets, Routed, Borrowed,
             LazyWrapperFits, Pointer
  <2> QED
    BY <2>3, <2>4 DEF OwnershipInv
<1> QED
  BY <1>2, <1>3 DEF ParseJson, Codes, OwnershipInv, TypeOK

\* A wrapped tape is the document's; a rejected one is freed (yep_json_doc_wrap).
LEMMA JsonWalkInv ==
  ASSUME OwnershipInv, JsonWalk
  PROVE  OwnershipInv'
<1>1. /\ route = "json" /\ refs = {} /\ ptr["box"] = "box"
      /\ \A p \in Pointer \ {"box"} : ptr[p] = NULL
      /\ Targets({"box"}) \subseteq heap /\ (LazyWrapperFits => heap \subseteq Targets({"box"}))
  BY DEF NULL, OwnershipInv, JsonWalk, Kinds, Routed, Holding, Only, Borrowed
<1>2. CASE pc' = "idle"
  <2>1. /\ heap' = heap \union {"doc", "words"} /\ status' = "ok"
        /\ ptr' = [AllNull EXCEPT !["doc"] = "doc", !["doc.tape"] = "box", !["doc.words"] = "words"]
        /\ UNCHANGED <<fault, tls, calls, route, refs>>
    BY <1>2 DEF JsonWalk, Go
  <2>2. /\ ptr'["doc"] = "doc" /\ ptr'["doc.tape"] = "box" /\ ptr'["doc.words"] = "words"
        /\ \A p \in Pointer \ {"doc", "doc.tape", "doc.words"} : ptr'[p] = NULL
    BY <2>1 DEF AllNull, Pointer
  <2>3. ptr' \in [Pointer -> Alloc \union {NULL}]
    <3>1. "doc" \in Alloc /\ "box" \in Alloc /\ "words" \in Alloc
      BY DEF Alloc
    <3> QED
      BY <2>1, <3>1, AllNullTyped
  <2>4. TypeOK' /\ NothingFreedTwice'
    BY <1>2, <2>1, <2>3 DEF OwnershipInv, TypeOK, NothingFreedTwice, Alloc
  <2>5. Targets(Fields \union {"doc"})' = {"doc", "box", "words"}
    BY <2>2 DEF NULL, Targets, Fields, Pointer
  <2>6. Targets({"box"}) = {"box"}
    BY <1>1 DEF NULL, Targets
  <2>7. Holding'
    BY <1>1, <1>2, <2>1, <2>2, <2>5, <2>6 DEF NULL, Holding, Only, LazyWrapperFits, Fields, Pointer
  <2>8. Kinds' /\ Routed' /\ Borrowed'
    BY <1>1, <1>2, <2>1, <2>2 DEF NULL, Kinds, Routed, Borrowed, Pointer, Fields, NoDocument
  <2> QED
    BY <2>4, <2>7, <2>8 DEF OwnershipInv
<1>3. CASE pc' # "idle"
  <2>1. Free({"box"}) /\ ptr' = AllNull /\ Go("strict") /\ UNCHANGED <<route, refs>>
    BY <1>3 DEF JsonWalk
  <2>2. ~Aliased({"box"})
    BY DEF Aliased
  <2>3. heap' = heap \ Targets({"box"}) /\ fault' = fault /\ \A p \in Pointer : ptr'[p] = NULL
    BY <1>1, <2>1, <2>2 DEF Free, AllNull, OwnershipInv, TypeOK
  <2>4. TypeOK' /\ NothingFreedTwice'
    BY <2>1, <2>3 DEF NULL, OwnershipInv, TypeOK, NothingFreedTwice, AllNull, Go
  <2>5. Kinds' /\ Holding' /\ Routed' /\ Borrowed'
    BY <1>1, <2>1, <2>3 DEF NULL, Kinds, Holding, Only, Targets, Routed, Borrowed,
             LazyWrapperFits, Pointer, Fields, NoDocument, Go
  <2> QED
    BY <2>4, <2>5 DEF OwnershipInv
<1> QED
  BY <1>2, <1>3

\* Pointers of different kinds never hold one allocation: no exit frees through two names.
LEMMA Apart ==
  ASSUME Kinds
  PROVE  /\ \A ps \in SUBSET {"words", "dom", "finish", "eng", "transcoded", "nbuf", "doc", "box"} :
              ~Aliased(ps)
         /\ ~Aliased(Fields \union {"doc"})
<1>1. ASSUME NEW p \in {"words", "dom", "finish", "eng", "transcoded", "nbuf", "doc", "box"},
             NEW q \in {"words", "dom", "finish", "eng", "transcoded", "nbuf", "doc", "box"},
             p # q, ptr[p] = ptr[q]
      PROVE  ptr[p] = NULL
  BY <1>1 DEF Kinds, NULL
<1>2. ASSUME NEW p \in Fields \union {"doc"}, NEW q \in Fields \union {"doc"},
             p # q, ptr[p] = ptr[q]
      PROVE  ptr[p] = NULL
  BY <1>2 DEF Kinds, NULL, Fields
<1> QED
  BY <1>1, <1>2 DEF Aliased

\* The strict sequence answers with nothing allocated or goes on with an empty tree.
LEMMA JsonStrictInv ==
  ASSUME OwnershipInv, JsonStrict
  PROVE  OwnershipInv'
<1>1. /\ route = "json" /\ refs = {} /\ (LazyWrapperFits => heap = {})
      /\ \A p \in Pointer : ptr[p] = NULL
  BY FreeNone DEF OwnershipInv, JsonStrict, Routed, Holding, Only, Borrowed
<1>2. ASSUME NEW st \in Codes, NEW msg \in Messages, Fail({}, st, msg)
      PROVE  OwnershipInv'
  BY <1>1, <1>2, FailInv, FreeNone
<1>3. CASE New("dom", "tree") /\ Go("build") /\ UNCHANGED <<route, refs>>
  <2>1. "dom" \in Pointer /\ "tree" \in Alloc
    BY DEF Pointer, Alloc
  <2>2. /\ heap' = heap \union {"tree"} /\ fault' = fault
        /\ ptr'["dom"] = "tree" /\ (\A q \in Pointer \ {"dom"} : ptr'[q] = ptr[q])
        /\ heap' \in SUBSET Alloc /\ ptr' \in [Pointer -> Alloc \union {NULL}]
    BY <1>3, <2>1, NewFacts DEF OwnershipInv
  <2>3. TypeOK' /\ NothingFreedTwice'
    BY <1>3, <2>2 DEF OwnershipInv, TypeOK, Go, NothingFreedTwice
  <2>4. Kinds' /\ Holding' /\ Routed' /\ Borrowed'
    BY <1>1, <1>3, <2>2 DEF NULL, Go, Kinds, Holding, Only, Targets, Routed, Borrowed,
             LazyWrapperFits, Pointer
  <2> QED
    BY <2>3, <2>4 DEF OwnershipInv
<1>4. tls \in Messages
  BY DEF OwnershipInv, TypeOK, Messages
<1> QED
  BY <1>2, <1>3, <1>4 DEF JsonStrict, Codes, Messages

\* The tree is freed or becomes the document's (yep_dom_build_json, yep_json_doc_wrap).
LEMMA JsonBuildInv ==
  ASSUME OwnershipInv, JsonBuild
  PROVE  OwnershipInv'
<1>1. /\ route = "json" /\ refs = {} /\ ptr["dom"] = "tree"
      /\ \A p \in Pointer \ {"dom"} : ptr[p] = NULL
      /\ Targets({"dom"}) \subseteq heap /\ (LazyWrapperFits => heap \subseteq Targets({"dom"}))
  BY DEF OwnershipInv, JsonBuild, Routed, Holding, Only, Borrowed
<1>2. Targets({"dom"}) = {"tree"}
  BY <1>1 DEF NULL, Targets
<1>3. ~Aliased({"dom"})
  BY DEF Aliased
<1>4. CASE Fail({"dom"}, "memory", tls)
  <2>1. {"dom"} \in SUBSET Pointer /\ "memory" \in Codes /\ tls \in Messages
    BY DEF Pointer, Codes, Messages, OwnershipInv, TypeOK
  <2> QED
    BY <1>1, <1>3, <1>4, <2>1, FailInv
<1>5. CASE Free({"dom"}) /\ ptr' = AllNull /\ Go("front") /\ UNCHANGED <<route, refs>>
  <2>1. heap' = heap \ {"tree"} /\ fault' = fault /\ \A p \in Pointer : ptr'[p] = NULL
    BY <1>1, <1>2, <1>3, <1>5 DEF Free, AllNull, OwnershipInv, TypeOK
  <2>2. TypeOK' /\ NothingFreedTwice'
    BY <1>5, <2>1, AllNullTyped DEF OwnershipInv, TypeOK, NothingFreedTwice, Go
  <2>3. Kinds' /\ Holding' /\ Routed' /\ Borrowed'
    BY <1>1, <1>2, <1>5, <2>1 DEF NULL, Kinds, Holding, Only, Targets, Routed, Borrowed,
             LazyWrapperFits, Pointer, Go
  <2> QED
    BY <2>2, <2>3 DEF OwnershipInv
<1>6. CASE /\ heap' = heap \union {"doc"}
           /\ ptr' = [AllNull EXCEPT !["doc"] = "doc", !["doc.dom"] = "tree"]
           /\ pc' = "idle" /\ status' = "ok"
           /\ UNCHANGED <<route, refs, fault, tls, calls>>
  <2>1. "doc" \in Alloc /\ "tree" \in Alloc
    BY DEF Alloc
  <2>2. ptr' \in [Pointer -> Alloc \union {NULL}]
    BY <1>6, <2>1, AllNullTyped
  <2>3. TypeOK' /\ NothingFreedTwice'
    BY <1>6, <2>1, <2>2 DEF OwnershipInv, TypeOK, NothingFreedTwice
  <2>4. /\ ptr'["doc"] = "doc" /\ ptr'["doc.dom"] = "tree"
        /\ \A p \in Pointer \ {"doc", "doc.dom"} : ptr'[p] = NULL
    BY <1>6 DEF AllNull, Pointer
  <2>5. Targets(Fields \union {"doc"})' = {"doc", "tree"}
    BY <2>4 DEF NULL, Targets, Fields, Pointer
  <2>6. Holding'
    BY <1>1, <1>2, <1>6, <2>4, <2>5 DEF NULL, Holding, Only, LazyWrapperFits, Fields, Pointer
  <2>7. Kinds' /\ Routed' /\ Borrowed'
    BY <1>1, <1>6, <2>4 DEF NULL, Kinds, Routed, Borrowed, Pointer, Fields, NoDocument
  <2> QED
    BY <2>3, <2>6, <2>7 DEF OwnershipInv
<1> QED
  BY <1>4, <1>5, <1>6 DEF JsonBuild

\* The front end hands over the caller's bytes or one copy (parse_frontend).
LEMMA FrontendInv ==
  ASSUME OwnershipInv, Frontend
  PROVE  OwnershipInv'
<1>1. /\ refs = {} /\ (LazyWrapperFits => heap = {})
      /\ \A p \in Pointer : ptr[p] = NULL
  BY FreeNone DEF OwnershipInv, Frontend, Holding, Only, Borrowed
<1>2. CASE Fail({}, "encoding", "encoding")
  BY <1>1, <1>2, FailInv, FreeNone DEF Codes, Messages
<1>3. CASE UNCHANGED <<heap, ptr, fault>> /\ Go("engine") /\ UNCHANGED <<route, refs>>
  BY <1>1, <1>3 DEF NULL, OwnershipInv, Holding, Only, Targets, Routed, Borrowed, Pointer, Go,
             LazyWrapperFits, TypeOK, NothingFreedTwice, Kinds
<1>4. ASSUME NEW a \in {"copy", "norm"}, New("transcoded", a), Go("engine"), UNCHANGED <<route, refs>>
      PROVE  OwnershipInv'
  <2>1. "transcoded" \in Pointer /\ a \in Alloc
    BY <1>4 DEF Pointer, Alloc
  <2>2. /\ heap' = heap \union {a} /\ fault' = fault
        /\ ptr'["transcoded"] = a /\ (\A q \in Pointer \ {"transcoded"} : ptr'[q] = ptr[q])
        /\ heap' \in SUBSET Alloc /\ ptr' \in [Pointer -> Alloc \union {NULL}]
    BY <1>4, <2>1, NewFacts DEF OwnershipInv
  <2>3. TypeOK' /\ NothingFreedTwice'
    BY <1>4, <2>2 DEF OwnershipInv, TypeOK, Go, NothingFreedTwice
  <2>4. Kinds' /\ Holding' /\ Routed' /\ Borrowed'
    BY <1>1, <1>4, <2>2 DEF NULL, Go, Kinds, Holding, Only, Targets, Routed, Borrowed,
             LazyWrapperFits, Pointer
  <2> QED
    BY <2>3, <2>4 DEF OwnershipInv
<1> QED
  BY <1>2, <1>3, <1>4 DEF Frontend

\* yep_engine_create.
LEMMA CreateEngineInv ==
  ASSUME OwnershipInv, CreateEngine
  PROVE  OwnershipInv'
<1>1. /\ refs = {} /\ Kinds
      /\ \A p \in Pointer \ {"transcoded"} : ptr[p] = NULL
      /\ Targets({"transcoded"}) \subseteq heap
      /\ LazyWrapperFits => heap \subseteq Targets({"transcoded"})
  BY DEF OwnershipInv, CreateEngine, Holding, Only, Borrowed
<1>2. CASE Fail({"transcoded"}, "memory", tls)
  <2>1. {"transcoded"} \in SUBSET Pointer /\ "memory" \in Codes /\ tls \in Messages
    BY DEF Pointer, Codes, Messages, OwnershipInv, TypeOK
  <2> QED
    BY <1>1, <1>2, <2>1, FailInv, Apart
<1>3. CASE New("eng", "eng") /\ Go("sink") /\ UNCHANGED <<route, refs>>
  <2>1. "eng" \in Pointer /\ "eng" \in Alloc
    BY DEF Pointer, Alloc
  <2>2. /\ heap' = heap \union {"eng"} /\ fault' = fault
        /\ ptr'["eng"] = "eng" /\ (\A q \in Pointer \ {"eng"} : ptr'[q] = ptr[q])
        /\ heap' \in SUBSET Alloc /\ ptr' \in [Pointer -> Alloc \union {NULL}]
    BY <1>3, <2>1, NewFacts DEF OwnershipInv
  <2>3. TypeOK' /\ NothingFreedTwice'
    BY <1>3, <2>2 DEF OwnershipInv, TypeOK, Go, NothingFreedTwice
  <2>4. Kinds' /\ Routed' /\ Borrowed'
    BY <1>1, <1>3, <2>2 DEF NULL, Go, Kinds, Routed, Borrowed, Pointer
  <2>5. Targets({"transcoded", "eng"})' = Targets({"transcoded"}) \union {"eng"}
    BY <2>2 DEF NULL, Targets, Pointer
  <2>6. Holding'
    BY <1>1, <1>3, <2>2, <2>5 DEF Go, Holding, Only, LazyWrapperFits
  <2> QED
    BY <2>3, <2>4, <2>6 DEF OwnershipInv
<1> QED
  BY <1>2, <1>3 DEF CreateEngine

\* ytap_init or yep_dom_create.
LEMMA CreateSinkInv ==
  ASSUME OwnershipInv, CreateSink
  PROVE  OwnershipInv'
<1>1. /\ refs = {} /\ Kinds
      /\ \A p \in Pointer \ {"transcoded", "eng"} : ptr[p] = NULL
      /\ Targets({"transcoded", "eng"}) \subseteq heap
      /\ LazyWrapperFits => heap \subseteq Targets({"transcoded", "eng"})
  BY DEF OwnershipInv, CreateSink, Holding, Only, Borrowed
<1>2. CASE Fail({"eng", "transcoded"}, "memory", tls)
  <2>1. {"eng", "transcoded"} \in SUBSET Pointer /\ "memory" \in Codes /\ tls \in Messages
    BY DEF Pointer, Codes, Messages, OwnershipInv, TypeOK
  <2>2. Targets({"eng", "transcoded"}) = Targets({"transcoded", "eng"})
    BY DEF Targets
  <2>3. ~Aliased({"eng", "transcoded"})
    BY <1>1, Apart
  <2> QED
    BY <1>1, <1>2, <2>1, <2>2, <2>3, FailInv
<1>3. ASSUME NEW p \in {"words", "dom"}, NEW a \in {"words", "tree"}, New(p, a),
             IF lazy THEN p = "words" /\ a = "words" ELSE p = "dom" /\ a = "tree",
             route # "events", Go("run"), UNCHANGED <<route, refs>>
      PROVE  OwnershipInv'
  <2>1. p \in Pointer /\ a \in Alloc
    BY <1>3 DEF Pointer, Alloc
  <2>2. /\ heap' = heap \union {a} /\ fault' = fault
        /\ ptr'[p] = a /\ (\A q \in Pointer \ {p} : ptr'[q] = ptr[q])
        /\ heap' \in SUBSET Alloc /\ ptr' \in [Pointer -> Alloc \union {NULL}]
    BY <1>3, <2>1, NewFacts DEF OwnershipInv
  <2>3. TypeOK' /\ NothingFreedTwice'
    BY <1>3, <2>2 DEF OwnershipInv, TypeOK, Go, NothingFreedTwice
  <2>4. Kinds' /\ Routed' /\ Borrowed'
    BY <1>1, <1>3, <2>2 DEF NULL, Go, Kinds, Routed, Borrowed, Pointer, lazy
  <2>5. Targets({"transcoded", "eng", "words", "dom"})' = Targets({"transcoded", "eng"}) \union {a}
    BY <1>1, <1>3, <2>2 DEF NULL, Targets, Pointer
  <2>6. \A q \in Pointer \ {"transcoded", "eng", "words", "dom"} : ptr'[q] = NULL
    BY <1>1, <2>2
  <2>7. Holding'
    BY <1>1, <1>3, <2>2, <2>5, <2>6 DEF Go, Holding, Only, LazyWrapperFits
  <2> QED
    BY <2>3, <2>4, <2>7 DEF OwnershipInv
<1>4. CASE route = "events" /\ UNCHANGED <<heap, ptr, fault>> /\ Go("run") /\ UNCHANGED <<route, refs>>
  <2>1. Targets({"transcoded", "eng", "words", "dom"}) = Targets({"transcoded", "eng"})
    BY <1>1 DEF Targets, Pointer
  <2>2. Holding'
    BY <1>1, <1>4, <2>1 DEF Go, Holding, Only, LazyWrapperFits, Targets
  <2>3. Kinds' /\ Routed' /\ Borrowed'
    BY <1>1, <1>4 DEF NULL, Go, Kinds, Routed, Borrowed, Pointer, lazy
  <2>4. TypeOK' /\ NothingFreedTwice'
    BY <1>4 DEF OwnershipInv, TypeOK, Go, NothingFreedTwice
  <2> QED
    BY <2>2, <2>3, <2>4 DEF OwnershipInv
<1> QED
  BY <1>2, <1>3, <1>4 DEF CreateSink, lazy

\* A failed run frees tape or tree, engine and bytes (parse.c:590-612).
LEMMA RunFailsInv ==
  ASSUME OwnershipInv, RunFails
  PROVE  OwnershipInv'
<1> DEFINE all == {"words", "dom", "eng", "transcoded"}
<1>1. /\ Kinds /\ Targets({"transcoded", "eng", "words", "dom"}) \subseteq heap
      /\ LazyWrapperFits => heap \subseteq Targets({"transcoded", "eng", "words", "dom"})
  BY DEF OwnershipInv, RunFails, Holding, Only
<1>2. PICK c \in RunErrors : Fail(all, c[1], c[2])
  BY DEF RunFails
<1>3. c[1] \in Codes /\ c[2] \in Messages
  BY DEF RunErrors, Codes, Messages
<1>4. Targets(all) = Targets({"transcoded", "eng", "words", "dom"})
  BY DEF Targets
<1>5. ~Aliased(all) /\ all \in SUBSET Pointer
  BY <1>1, Apart DEF Pointer
<1> QED
  BY <1>1, <1>2, <1>3, <1>4, <1>5, FailInv

\* The events went to the caller's sink: nothing is left of the run (yep_parse_events).
LEMMA RunEventsInv ==
  ASSUME OwnershipInv, RunEvents
  PROVE  OwnershipInv'
<1>1. /\ Kinds /\ Targets({"transcoded", "eng", "words", "dom"}) \subseteq heap
      /\ LazyWrapperFits => heap \subseteq Targets({"transcoded", "eng", "words", "dom"})
      /\ ptr["words"] = NULL /\ ptr["dom"] = NULL
  BY DEF OwnershipInv, RunEvents, Holding, Only, Routed, lazy
<1>2. Targets({"eng", "transcoded"}) = Targets({"transcoded", "eng", "words", "dom"})
  BY <1>1 DEF Targets
<1>3. ~Aliased({"eng", "transcoded"}) /\ {"eng", "transcoded"} \in SUBSET Pointer
  BY <1>1, Apart DEF Pointer
<1>4. "ok" \in Codes /\ tls \in Messages
  BY DEF Codes, Messages, OwnershipInv, TypeOK
<1> QED
  BY <1>1, <1>2, <1>3, <1>4, FailInv DEF RunEvents

\* The fused runner and the flow-rooted one end the engine and may hand over a pool.
LEMMA RunTapeInv ==
  ASSUME OwnershipInv, RunTape
  PROVE  OwnershipInv'
<1>1. /\ lazy /\ Kinds /\ ptr["dom"] = NULL /\ ptr["words"] = "words"
      /\ \A p \in Pointer \ {"transcoded", "eng", "words", "dom"} : ptr[p] = NULL
      /\ Targets({"transcoded", "eng", "words", "dom"}) \subseteq heap
      /\ LazyWrapperFits => heap \subseteq Targets({"transcoded", "eng", "words", "dom"})
  BY DEF OwnershipInv, RunTape, Routed, Holding, Only
<1>2. PICK pooled \in BOOLEAN :
        /\ heap' = (heap \ {"eng"}) \union (IF pooled THEN {"pool"} ELSE {})
        /\ ptr' = [ptr EXCEPT !["eng"] = NULL, !["ytpool"] = IF pooled THEN "pool" ELSE NULL]
        /\ refs' = Targets({"transcoded"}) \union (IF pooled THEN {"pool"} ELSE {})
  BY DEF RunTape
<1>3. pc' = "wrap" /\ UNCHANGED <<status, tls, calls, route, fault>>
  BY DEF RunTape, Go
<1>4. /\ ptr'["eng"] = NULL /\ ptr'["ytpool"] = IF pooled THEN "pool" ELSE NULL
      /\ \A p \in Pointer \ {"eng", "ytpool"} : ptr'[p] = ptr[p]
  BY <1>2 DEF OwnershipInv, TypeOK, Pointer
<1>5. Targets({"transcoded"}) \subseteq Alloc /\ "pool" \in Alloc
  BY <1>1 DEF Targets, Kinds, Alloc, NULL
<1>6. TypeOK'
  <2>1. ptr' \in [Pointer -> Alloc \union {NULL}]
    BY <1>2, <1>5 DEF OwnershipInv, TypeOK
  <2> QED
    BY <1>2, <1>3, <1>5, <2>1 DEF OwnershipInv, TypeOK
<1>7. Kinds' /\ NothingFreedTwice' /\ Routed'
  BY <1>1, <1>3, <1>4 DEF NULL, OwnershipInv, NothingFreedTwice, Kinds, Routed, Pointer, lazy
<1>8. Targets(Built \union {"ytpool"})' =
        (Targets({"transcoded", "eng", "words", "dom"}) \ {"eng"}) \union (IF pooled THEN {"pool"} ELSE {})
  BY <1>1, <1>4 DEF NULL, Targets, Built, Pointer, Kinds
<1>9. \A p \in Pointer \ (Built \union {"ytpool"}) : ptr'[p] = NULL
  BY <1>1, <1>4 DEF Built
<1>10. Holding'
  BY <1>1, <1>2, <1>3, <1>8, <1>9 DEF Holding, Only, LazyWrapperFits
<1>11. Targets({"finish", "ytpool", "transcoded"})' =
         Targets({"transcoded"}) \union (IF pooled THEN {"pool"} ELSE {})
  BY <1>1, <1>4 DEF NULL, Targets, Pointer
<1>12. ptr'["nbuf"] = NULL /\ lazy'
  BY <1>1, <1>3, <1>4 DEF Pointer, lazy
<1>13. Borrowed'
  BY <1>2, <1>3, <1>11, <1>12 DEF Borrowed
<1> QED
  BY <1>6, <1>7, <1>10, <1>13 DEF OwnershipInv

\* A run that succeeds detaches the pool and the normalized copy and ends the engine.
LEMMA RunEngineInv ==
  ASSUME OwnershipInv, RunEngine
  PROVE  OwnershipInv'
<1>1. /\ route # "events" /\ Kinds
      /\ \A p \in Pointer \ {"transcoded", "eng", "words", "dom"} : ptr[p] = NULL
      /\ Targets({"transcoded", "eng", "words", "dom"}) \subseteq heap
      /\ LazyWrapperFits => heap \subseteq Targets({"transcoded", "eng", "words", "dom"})
      /\ lazy => ptr["dom"] = NULL /\ ptr["words"] = "words"
      /\ ~lazy => ptr["dom"] = "tree" /\ ptr["words"] = NULL
  BY DEF OwnershipInv, RunEngine, Routed, Holding, Only
<1>2. PICK renormed \in BOOLEAN :
        /\ heap' = (heap \ {"eng"}) \union {"pool"} \union (IF renormed THEN {"nbuf"} ELSE {})
        /\ ptr' = [ptr EXCEPT !["eng"] = NULL, !["finish"] = "pool",
                              !["nbuf"] = IF renormed THEN "nbuf" ELSE NULL]
        /\ refs' = IF lazy THEN {"pool"} \union
                                  (IF renormed THEN {"nbuf"} ELSE Targets({"transcoded"}))
                   ELSE Targets({"transcoded"})
  BY DEF RunEngine
<1>3. pc' = "settle" /\ UNCHANGED <<status, tls, calls, route, fault>>
  BY DEF RunEngine, Go
<1>4. /\ ptr'["eng"] = NULL /\ ptr'["finish"] = "pool"
      /\ ptr'["nbuf"] = IF renormed THEN "nbuf" ELSE NULL
      /\ \A p \in Pointer \ {"eng", "finish", "nbuf"} : ptr'[p] = ptr[p]
  BY <1>2 DEF OwnershipInv, TypeOK, Pointer
<1>5. Targets({"transcoded"}) \subseteq Alloc /\ "pool" \in Alloc /\ "nbuf" \in Alloc
  BY <1>1 DEF Targets, Kinds, Alloc, NULL
<1>6. TypeOK'
  <2>1. ptr' \in [Pointer -> Alloc \union {NULL}]
    BY <1>2, <1>5 DEF OwnershipInv, TypeOK
  <2> QED
    BY <1>2, <1>3, <1>5, <2>1 DEF OwnershipInv, TypeOK
<1>7. Kinds' /\ NothingFreedTwice' /\ Routed'
  BY <1>1, <1>3, <1>4 DEF NULL, OwnershipInv, NothingFreedTwice, Kinds, Routed, Pointer, lazy
<1>8. Targets(Built)' = (Targets({"transcoded", "eng", "words", "dom"}) \ {"eng"})
                          \union {"pool"} \union (IF renormed THEN {"nbuf"} ELSE {})
  BY <1>1, <1>4 DEF NULL, Targets, Built, Pointer, Kinds
<1>9. \A p \in Pointer \ Built : ptr'[p] = NULL
  BY <1>1, <1>4 DEF Built
<1>10. Holding'
  BY <1>1, <1>2, <1>3, <1>8, <1>9 DEF Holding, Only, LazyWrapperFits
<1>11. /\ Targets({"finish", "ytpool", "transcoded"})' = {"pool"} \union Targets({"transcoded"})
       /\ Targets({"transcoded"})' = Targets({"transcoded"})
       /\ Targets({"finish", "ytpool", "nbuf"})' = {"pool"} \union (IF renormed THEN {"nbuf"} ELSE {})
  BY <1>1, <1>4 DEF NULL, Targets, Pointer
<1>12. Borrowed'
  BY <1>2, <1>3, <1>4, <1>11 DEF NULL, Borrowed, lazy
<1> QED
  BY <1>6, <1>7, <1>10, <1>12 DEF OwnershipInv

\* An empty stream frees everything; the eager route is done with the pool.
LEMMA SettleInv ==
  ASSUME OwnershipInv, Settle
  PROVE  OwnershipInv'
<1>1. /\ route # "events" /\ Kinds
      /\ \A p \in Pointer \ Built : ptr[p] = NULL
      /\ Targets(Built) \subseteq heap /\ (LazyWrapperFits => heap \subseteq Targets(Built))
      /\ lazy => ptr["dom"] = NULL /\ ptr["words"] = "words"
      /\ ~lazy => ptr["dom"] = "tree" /\ ptr["words"] = NULL
  BY DEF OwnershipInv, Settle, Routed, Holding, Only
<1>2. ~Aliased(Built) /\ ~Aliased({"finish"}) /\ Built \in SUBSET Pointer
  BY <1>1, Apart DEF Built, Pointer
<1>3. CASE Fail({"words", "dom", "finish", "transcoded", "nbuf"}, "ok", tls)
  <2>1. "ok" \in Codes /\ tls \in Messages
    BY DEF Codes, Messages, OwnershipInv, TypeOK
  <2> QED
    BY <1>1, <1>2, <1>3, <2>1, FailInv DEF Built
<1>4. CASE /\ Free(IF lazy THEN {} ELSE {"finish"})
           /\ ptr' = IF lazy THEN ptr ELSE [ptr EXCEPT !["finish"] = NULL]
           /\ Go("wrap") /\ UNCHANGED <<route, refs>>
  <2>1. Targets({"finish"}) \subseteq heap
    BY <1>1 DEF Targets, Built
  <2>2. heap' = heap \ (IF lazy THEN {} ELSE Targets({"finish"})) /\ fault' = fault
    BY <1>2, <1>4, <2>1, FreeNone DEF Free, OwnershipInv, TypeOK
  <2>3. /\ \A p \in Pointer \ {"finish"} : ptr'[p] = ptr[p]
        /\ ptr'["finish"] = IF lazy THEN ptr["finish"] ELSE NULL
    BY <1>4 DEF OwnershipInv, TypeOK, Pointer
  <2>4. TypeOK'
    BY <1>4, <2>2 DEF OwnershipInv, TypeOK, Go
  <2>5. Kinds' /\ NothingFreedTwice' /\ Routed'
    BY <1>1, <1>4, <2>2, <2>3 DEF NULL, OwnershipInv, NothingFreedTwice, Kinds, Routed, Pointer, lazy,
              Go, Built
  <2>6. Targets(Built \union {"ytpool"})' = Targets(Built) \ (IF lazy THEN {} ELSE Targets({"finish"}))
    BY <1>1, <2>3 DEF NULL, Targets, Built, Pointer, Kinds
  <2>7. Holding'
    BY <1>1, <1>4, <2>2, <2>3, <2>6 DEF Holding, Only, LazyWrapperFits, Go, Built
  <2>8. Borrowed'
    BY <1>1, <1>4, <2>3 DEF NULL, OwnershipInv, Settle, Borrowed, Targets, Pointer, lazy, Go
  <2> QED
    BY <2>4, <2>5, <2>7, <2>8 DEF OwnershipInv
<1> QED
  BY <1>3, <1>4 DEF Settle

\* The document structure; on the lazy route its failure loses the tape (parse.c:640-649).
LEMMA AllocDocInv ==
  ASSUME OwnershipInv, AllocDoc
  PROVE  OwnershipInv'
<1> DEFINE held == Built \union {"ytpool"}
<1>1. /\ route # "events" /\ Kinds
      /\ \A p \in Pointer \ held : ptr[p] = NULL
      /\ Targets(held) \subseteq heap /\ (LazyWrapperFits => heap \subseteq Targets(held))
      /\ ~lazy => ptr["words"] = NULL /\ ptr["ytpool"] = NULL
  BY DEF OwnershipInv, AllocDoc, Routed, Holding, Only
<1>2. CASE /\ Fails(IF lazy THEN "doc_lazy" ELSE "doc_eager")
           /\ Fail({"dom", "finish", "transcoded", "nbuf"}, "memory", tls)
  <2>1. "memory" \in Codes /\ tls \in Messages
    BY DEF Codes, Messages, OwnershipInv, TypeOK
  <2>2. /\ ~Aliased({"dom", "finish", "transcoded", "nbuf"})
        /\ {"dom", "finish", "transcoded", "nbuf"} \in SUBSET Pointer
    BY <1>1, Apart DEF Pointer
  <2>3. Targets({"dom", "finish", "transcoded", "nbuf"}) \subseteq Targets(held)
    BY DEF Targets, Built
  <2>4. LazyWrapperFits => ~lazy
    BY <1>2 DEF LazyWrapperFits, Fails
  <2>5. ~lazy => Targets(held) \subseteq Targets({"dom", "finish", "transcoded", "nbuf"})
    BY <1>1 DEF Targets, Built
  <2> QED
    BY <1>1, <1>2, <2>1, <2>2, <2>3, <2>4, <2>5, FailInv
<1>3. CASE New("doc", "doc") /\ Go("park") /\ UNCHANGED <<route, refs>>
  <2>1. "doc" \in Pointer /\ "doc" \in Alloc
    BY DEF Pointer, Alloc
  <2>2. /\ heap' = heap \union {"doc"} /\ fault' = fault
        /\ ptr'["doc"] = "doc" /\ (\A q \in Pointer \ {"doc"} : ptr'[q] = ptr[q])
        /\ heap' \in SUBSET Alloc /\ ptr' \in [Pointer -> Alloc \union {NULL}]
    BY <1>3, <2>1, NewFacts DEF OwnershipInv
  <2>3. TypeOK' /\ NothingFreedTwice'
    BY <1>3, <2>2 DEF OwnershipInv, TypeOK, Go, NothingFreedTwice
  <2>4. Kinds' /\ Routed'
    BY <1>1, <1>3, <2>2 DEF NULL, OwnershipInv, AllocDoc, Go, Kinds, Routed, Pointer, lazy
  <2>5. /\ Targets({"finish", "ytpool", "transcoded"})' = Targets({"finish", "ytpool", "transcoded"})
        /\ Targets({"transcoded"})' = Targets({"transcoded"})
        /\ Targets({"finish", "ytpool", "nbuf"})' = Targets({"finish", "ytpool", "nbuf"})
        /\ ptr'["nbuf"] = ptr["nbuf"]
    BY <2>2 DEF Targets, Pointer
  <2>6. Borrowed'
    BY <1>3, <2>5 DEF OwnershipInv, AllocDoc, Borrowed, lazy, Go
  <2>7. Targets(Built \union {"ytpool", "doc"})' = Targets(held) \union {"doc"}
    BY <1>1, <2>2 DEF NULL, Targets, Built, Pointer
  <2>8. Holding'
    BY <1>1, <1>3, <2>2, <2>7 DEF Go, Holding, Only, LazyWrapperFits
  <2> QED
    BY <2>3, <2>4, <2>6, <2>8 DEF OwnershipInv
<1> QED
  BY <1>2, <1>3 DEF AllocDoc

\* The document takes the buffer the views point into (parse.c:655-683).
LEMMA ParkBuffersInv ==
  ASSUME OwnershipInv, ParkBuffers
  PROVE  OwnershipInv'
<1> DEFINE held == Built \union {"ytpool", "doc"}
           gone == IF ptr["nbuf"] = NULL THEN {} ELSE IF lazy THEN {"transcoded"} ELSE {"nbuf"}
           rebased == lazy /\ ptr["nbuf"] # NULL
           kept == {"words", "dom", "finish", "ytpool", "doc", "doc.transcoded"}
<1>1. /\ route # "events" /\ Kinds /\ pc = "park"
      /\ \A p \in Pointer \ held : ptr[p] = NULL
      /\ Targets(held) \subseteq heap /\ (LazyWrapperFits => heap \subseteq Targets(held))
  BY DEF OwnershipInv, ParkBuffers, Routed, Holding, Only
<1>2. /\ Free(gone) /\ pc' = "fill" /\ UNCHANGED <<status, tls, calls, route, refs>>
      /\ ptr' = [ptr EXCEPT !["doc.transcoded"] = IF rebased THEN ptr["nbuf"] ELSE ptr["transcoded"],
                            !["transcoded"] = IF rebased THEN NULL ELSE @]
  BY DEF ParkBuffers, Go
<1>3. ~Aliased(gone)
  BY DEF Aliased
<1>4. Targets(gone) \subseteq heap
  BY <1>1 DEF Targets, Built
<1>5. heap' = heap \ Targets(gone) /\ fault' = fault
  BY <1>2, <1>3, <1>4 DEF Free, OwnershipInv, TypeOK
<1>6. /\ ptr'["doc.transcoded"] = IF rebased THEN ptr["nbuf"] ELSE ptr["transcoded"]
      /\ ptr'["transcoded"] = IF rebased THEN NULL ELSE ptr["transcoded"]
      /\ \A p \in Pointer \ {"doc.transcoded", "transcoded"} : ptr'[p] = ptr[p]
  BY <1>2 DEF OwnershipInv, TypeOK, Pointer
<1>7. TypeOK'
  <2>1. "nbuf" \in Pointer /\ "transcoded" \in Pointer
    BY DEF Pointer
  <2>2. ptr["nbuf"] \in Alloc \union {NULL} /\ ptr["transcoded"] \in Alloc \union {NULL}
    BY <2>1 DEF OwnershipInv, TypeOK
  <2>3. ptr' \in [Pointer -> Alloc \union {NULL}]
    BY <1>2, <2>2 DEF OwnershipInv, TypeOK
  <2> QED
    BY <1>2, <1>5, <2>3 DEF OwnershipInv, TypeOK
<1>8. Kinds' /\ NothingFreedTwice' /\ Routed'
  <2>1. Kinds'
    BY <1>1, <1>6 DEF NULL, Kinds, Pointer
  <2>2. NothingFreedTwice'
    BY <1>5 DEF OwnershipInv, NothingFreedTwice
  <2>3. Routed'
    BY <1>1, <1>2, <1>6 DEF NULL, OwnershipInv, Routed, Pointer, lazy
  <2> QED
    BY <2>1, <2>2, <2>3
<1>9. Targets(kept)' = Targets(held) \ Targets(gone)
  <2>1. CASE ptr["nbuf"] = NULL
    BY <1>1, <1>6, <2>1 DEF NULL, Targets, Built, Pointer, Kinds
  <2>2. CASE rebased
    <3>1. ptr["nbuf"] = "nbuf" /\ gone = {"transcoded"}
      BY <1>1, <2>2 DEF Kinds, NULL
    <3>2. Targets(kept)' = Targets({"words", "dom", "finish", "ytpool", "doc", "nbuf"})
      BY <1>6, <2>2 DEF Targets, Pointer
    <3>3. Targets(held) = Targets({"words", "dom", "finish", "ytpool", "doc", "nbuf"}) \union Targets({"transcoded"})
      BY DEF Targets, Built
    <3>4. Targets({"words", "dom", "finish", "ytpool", "doc", "nbuf"}) \intersect Targets({"transcoded"}) = {}
      BY <1>1 DEF Targets, Kinds, NULL
    <3> QED
      BY <3>1, <3>2, <3>3, <3>4
  <2>3. CASE ptr["nbuf"] # NULL /\ ~lazy
    <3>1. ptr["nbuf"] = "nbuf" /\ gone = {"nbuf"}
      BY <1>1, <2>3 DEF Kinds, NULL
    <3>2. Targets(kept)' = Targets({"words", "dom", "finish", "ytpool", "doc", "transcoded"})
      BY <1>6, <2>3 DEF Targets, Pointer
    <3>3. Targets(held) = Targets({"words", "dom", "finish", "ytpool", "doc", "transcoded"}) \union Targets({"nbuf"})
      BY DEF Targets, Built
    <3>4. Targets({"words", "dom", "finish", "ytpool", "doc", "transcoded"}) \intersect Targets({"nbuf"}) = {}
      BY <1>1 DEF Targets, Kinds, NULL
    <3> QED
      BY <3>1, <3>2, <3>3, <3>4
  <2> QED
    BY <2>1, <2>2, <2>3
<1>10. Parked'
  BY <1>1, <1>2, <1>5, <1>6, <1>9 DEF NULL, Parked, Pointer, Fields, Built, LazyWrapperFits, lazy
<1>11. Holding'
  BY <1>2, <1>10 DEF Holding
<1>12. /\ Targets({"finish", "ytpool", "doc.transcoded"})' =
            Targets(IF rebased THEN {"finish", "ytpool", "nbuf"} ELSE {"finish", "ytpool", "transcoded"})
       /\ Targets({"doc.transcoded"})' = Targets(IF rebased THEN {"nbuf"} ELSE {"transcoded"})
  BY <1>6 DEF Targets, Pointer
<1>13. Borrowed'
  <2>1. refs \subseteq IF rebased THEN Targets({"finish", "ytpool", "nbuf"})
                      ELSE IF lazy THEN Targets({"finish", "ytpool", "transcoded"})
                      ELSE Targets({"transcoded"})
    BY <1>1 DEF OwnershipInv, Borrowed
  <2>2. Targets({"transcoded"}) \subseteq Targets({"finish", "ytpool", "transcoded"})
    BY DEF Targets
  <2>3. lazy' = lazy
    BY <1>2 DEF lazy
  <2>4. refs' \subseteq Targets({"finish", "ytpool", "doc.transcoded"})'
    BY <1>2, <1>12, <2>1, <2>2
  <2>5. ~lazy => refs' \subseteq Targets({"doc.transcoded"})'
    BY <1>2, <1>12, <2>1
  <2> QED
    BY <1>2, <2>3, <2>4, <2>5 DEF Borrowed
<1> QED
  BY <1>7, <1>8, <1>11, <1>13 DEF OwnershipInv

\* The tape moves into its box, or the tree into the document; a box that cannot be had
\* takes the document back and loses a pool of the tape's own (parse.c:687-697).
LEMMA FillDocInv ==
  ASSUME OwnershipInv, FillDoc
  PROVE  OwnershipInv'
<1> DEFINE kept == {"words", "dom", "finish", "ytpool", "doc", "doc.transcoded"}
           back == {"words", "finish", "transcoded", "nbuf", "doc"}
<1>1. /\ Kinds /\ route # "events" /\ pc = "fill" /\ Parked
      /\ lazy => ptr["dom"] = NULL /\ ptr["words"] = "words"
      /\ ~lazy => /\ ptr["words"] = NULL /\ ptr["dom"] = "tree"
                  /\ ptr["ytpool"] = NULL /\ ptr["finish"] = NULL
      /\ ptr["finish"] = NULL \/ ptr["ytpool"] = NULL
      /\ refs \subseteq Targets({"finish", "ytpool", "doc.transcoded"})
      /\ ~lazy => refs \subseteq Targets({"doc.transcoded"})
  BY DEF OwnershipInv, FillDoc, Routed, Holding, Borrowed
<1>2. /\ Targets(kept) \subseteq heap /\ (LazyWrapperFits => heap \subseteq Targets(kept))
      /\ ptr["doc.transcoded"] = IF lazy /\ ptr["nbuf"] # NULL THEN ptr["nbuf"] ELSE ptr["transcoded"]
      /\ lazy /\ ptr["nbuf"] # NULL => ptr["transcoded"] = NULL
  BY <1>1 DEF Parked
<1>3. CASE lazy /\ Fails(BoxSite) /\ Fail(back, "memory", tls)
  <2>1. "memory" \in Codes /\ tls \in Messages
    BY DEF Codes, Messages, OwnershipInv, TypeOK
  <2>2. ~Aliased(back) /\ back \in SUBSET Pointer
    BY <1>1, Apart DEF Pointer
  <2>3. Targets(back) \subseteq Targets(kept)
    BY <1>2, <1>3 DEF Targets
  <2>4. LazyWrapperFits => ptr["ytpool"] = NULL
    BY <1>3 DEF LazyWrapperFits, Fails, BoxSite
  <2>5. ptr["ytpool"] = NULL => Targets(kept) \subseteq Targets(back)
    BY <1>1, <1>2, <1>3 DEF Targets
  <2> QED
    BY <1>2, <1>3, <2>1, <2>2, <2>3, <2>4, <2>5, FailInv
<1>4. CASE /\ lazy
           /\ heap' = heap \union {"box"}
           /\ ptr' = [AllNull EXCEPT
                        !["doc"] = "doc", !["doc.transcoded"] = ptr["doc.transcoded"],
                        !["doc.tape"] = "box", !["doc.words"] = ptr["words"],
                        !["doc.finish"] = IF ptr["finish"] = NULL THEN ptr["ytpool"] ELSE ptr["finish"]]
           /\ Go("idle") /\ UNCHANGED <<route, refs, fault>>
  <2>1. /\ ptr'["doc"] = "doc" /\ ptr'["doc.transcoded"] = ptr["doc.transcoded"]
        /\ ptr'["doc.tape"] = "box" /\ ptr'["doc.words"] = "words"
        /\ ptr'["doc.finish"] = IF ptr["finish"] = NULL THEN ptr["ytpool"] ELSE ptr["finish"]
        /\ \A p \in Pointer \ {"doc", "doc.transcoded", "doc.tape", "doc.words", "doc.finish"} :
             ptr'[p] = NULL
    BY <1>1, <1>4 DEF AllNull, Pointer
  <2>2. Kinds'
    BY <1>1, <2>1 DEF NULL, Kinds, Pointer
  <2>3. TypeOK'
    <3>1. /\ "doc" \in Alloc /\ "box" \in Alloc
          /\ "doc.transcoded" \in Pointer /\ "words" \in Pointer /\ "finish" \in Pointer /\ "ytpool" \in Pointer
      BY DEF Alloc, Pointer
    <3>2. /\ ptr["doc.transcoded"] \in Alloc \union {NULL} /\ ptr["words"] \in Alloc \union {NULL}
          /\ ptr["finish"] \in Alloc \union {NULL} /\ ptr["ytpool"] \in Alloc \union {NULL}
      BY <3>1 DEF OwnershipInv, TypeOK
    <3>3. ptr' \in [Pointer -> Alloc \union {NULL}]
      BY <1>4, <3>1, <3>2, AllNullTyped
    <3> QED
      BY <1>4, <3>1, <3>3 DEF OwnershipInv, TypeOK, Go
  <2>4. Targets(Fields \union {"doc"})' = Targets(kept) \union {"box"}
    <3>1. ptr["doc"] = "doc" /\ ptr'["doc.dom"] = NULL
      BY <1>1, <2>1 DEF OwnershipInv, Routed, Pointer
    <3>2. Targets(Fields \union {"doc"})' = {ptr'["doc.dom"], ptr'["doc.tape"], ptr'["doc.words"],
               ptr'["doc.finish"], ptr'["doc.transcoded"], ptr'["doc"]} \ {NULL}
      BY DEF Targets, Fields
    <3>3. Targets(kept) = {ptr["words"], ptr["dom"], ptr["finish"], ptr["ytpool"], ptr["doc"],
                           ptr["doc.transcoded"]} \ {NULL}
      BY DEF Targets
    <3>4. /\ ptr["dom"] = NULL /\ ptr["words"] = "words" /\ (ptr["finish"] = NULL \/ ptr["ytpool"] = NULL)
          /\ "doc" # NULL /\ "words" # NULL /\ "box" # NULL
      BY <1>1, <1>4 DEF NULL
    <3>5. {ptr["words"], ptr["dom"], ptr["finish"], ptr["ytpool"], ptr["doc"], ptr["doc.transcoded"]} \ {NULL}
            = {"words", "doc"} \union ({ptr'["doc.finish"], ptr["doc.transcoded"]} \ {NULL})
      BY <2>1, <3>1, <3>4
    <3> QED
      BY <2>1, <3>1, <3>2, <3>3, <3>4, <3>5
  <2>5. Holding'
    BY <1>2, <1>4, <2>1, <2>4 DEF Holding, Only, LazyWrapperFits, Go, Fields
  <2>6. NothingFreedTwice' /\ Routed'
    BY <1>4, <2>1 DEF NULL, OwnershipInv, NothingFreedTwice, Routed, NoDocument, Go, Pointer
  <2>7. Targets({"doc.finish", "doc.transcoded"})' = Targets({"finish", "ytpool", "doc.transcoded"})
    BY <1>1, <2>1 DEF Targets
  <2>8. Borrowed'
    BY <1>1, <1>4, <2>7 DEF Borrowed, Go
  <2> QED
    BY <2>2, <2>3, <2>5, <2>6, <2>8 DEF OwnershipInv
<1>5. CASE /\ ~lazy
           /\ ptr' = [AllNull EXCEPT
                        !["doc"] = "doc", !["doc.transcoded"] = ptr["doc.transcoded"],
                        !["doc.dom"] = ptr["dom"]]
           /\ Go("idle") /\ UNCHANGED <<route, heap, refs, fault>>
  <2>1. /\ ptr'["doc"] = "doc" /\ ptr'["doc.transcoded"] = ptr["doc.transcoded"]
        /\ ptr'["doc.dom"] = "tree"
        /\ \A p \in Pointer \ {"doc", "doc.transcoded", "doc.dom"} : ptr'[p] = NULL
    BY <1>1, <1>5 DEF AllNull, Pointer
  <2>2. Kinds'
    BY <1>1, <2>1 DEF NULL, Kinds, Pointer
  <2>3. TypeOK'
    <3>1. /\ "doc" \in Alloc /\ "doc.transcoded" \in Pointer /\ "dom" \in Pointer
      BY DEF Alloc, Pointer
    <3>2. /\ ptr["doc.transcoded"] \in Alloc \union {NULL} /\ ptr["dom"] \in Alloc \union {NULL}
      BY <3>1 DEF OwnershipInv, TypeOK
    <3>3. ptr' \in [Pointer -> Alloc \union {NULL}]
      BY <1>5, <3>1, <3>2, AllNullTyped
    <3> QED
      BY <1>5, <3>3 DEF OwnershipInv, TypeOK, Go
  <2>4. Targets(Fields \union {"doc"})' = Targets(kept)
    <3>1. /\ ptr["doc"] = "doc" /\ ptr'["doc.tape"] = NULL /\ ptr'["doc.words"] = NULL
          /\ ptr'["doc.finish"] = NULL
      BY <1>1, <2>1 DEF OwnershipInv, Routed, Pointer
    <3>2. Targets(Fields \union {"doc"})' = {ptr'["doc.dom"], ptr'["doc.tape"], ptr'["doc.words"],
               ptr'["doc.finish"], ptr'["doc.transcoded"], ptr'["doc"]} \ {NULL}
      BY DEF Targets, Fields
    <3>3. Targets(kept) = {ptr["words"], ptr["dom"], ptr["finish"], ptr["ytpool"], ptr["doc"],
                           ptr["doc.transcoded"]} \ {NULL}
      BY DEF Targets
    <3>4. /\ ptr["words"] = NULL /\ ptr["dom"] = "tree" /\ ptr["finish"] = NULL /\ ptr["ytpool"] = NULL
          /\ "doc" # NULL /\ "tree" # NULL
      BY <1>1, <1>5 DEF NULL
    <3> QED
      BY <2>1, <3>1, <3>2, <3>3, <3>4
  <2>5. Holding'
    BY <1>2, <1>5, <2>1, <2>4 DEF Holding, Only, LazyWrapperFits, Go, Fields
  <2>6. NothingFreedTwice' /\ Routed'
    BY <1>5, <2>1 DEF NULL, OwnershipInv, NothingFreedTwice, Routed, NoDocument, Go, Pointer
  <2>7. Targets({"doc.transcoded"}) \subseteq Targets({"doc.finish", "doc.transcoded"})'
    BY <2>1 DEF Targets
  <2>8. Borrowed'
    BY <1>1, <1>5, <2>7 DEF Borrowed, Go
  <2> QED
    BY <2>2, <2>3, <2>5, <2>6, <2>8 DEF OwnershipInv
<1> QED
  BY <1>3, <1>4, <1>5 DEF FillDoc

\* The replay gives the tree and releases tape and pool, once (yep_doc_dom).
LEMMA MaterializeInv ==
  ASSUME OwnershipInv, Materialize
  PROVE  OwnershipInv'
<1> DEFINE gone == {"doc.tape", "doc.words", "doc.finish"}
<1>1. /\ Kinds /\ pc = "idle" /\ ptr["doc.dom"] = NULL /\ ptr["doc.tape"] # NULL
      /\ \A p \in Pointer \ (Fields \union {"doc"}) : ptr[p] = NULL
      /\ Targets(Fields \union {"doc"}) \subseteq heap
      /\ LazyWrapperFits => heap \subseteq Targets(Fields \union {"doc"})
      /\ ~NoDocument
      /\ refs \subseteq Targets({"doc.finish", "doc.transcoded"})
  BY DEF OwnershipInv, Materialize, Holding, Only, Routed, Borrowed, Fields
<1>2. pc' = "idle" /\ UNCHANGED <<route, status, tls, calls>>
  BY DEF Materialize, OwnershipInv
<1>3. CASE UNCHANGED <<heap, ptr, refs, fault>>
  BY <1>2, <1>3 DEF OwnershipInv, Materialize, TypeOK, NothingFreedTwice, Kinds, Holding, Routed, Borrowed,
       Only, Targets, NoDocument, Parked, LazyWrapperFits, lazy
<1>4. CASE /\ heap' = (heap \ Targets(gone)) \union {"tree"}
           /\ fault' = (fault \/ ~(Targets(gone) \subseteq heap))
           /\ ptr' = [ptr EXCEPT !["doc.dom"] = "tree", !["doc.tape"] = NULL, !["doc.words"] = NULL,
                                 !["doc.finish"] = NULL]
           /\ refs' = refs \ Targets({"doc.finish"})
  <2>1. Targets(gone) \subseteq heap
    BY <1>1 DEF Targets, Fields
  <2>2. /\ ptr'["doc.dom"] = "tree" /\ ptr'["doc.tape"] = NULL /\ ptr'["doc.words"] = NULL
        /\ ptr'["doc.finish"] = NULL
        /\ \A p \in Pointer \ {"doc.dom", "doc.tape", "doc.words", "doc.finish"} : ptr'[p] = ptr[p]
    BY <1>4 DEF OwnershipInv, TypeOK, Pointer
  <2>3. TypeOK' /\ NothingFreedTwice'
    <3>1. "tree" \in Alloc
      BY DEF Alloc
    <3>2. ptr' \in [Pointer -> Alloc \union {NULL}]
      BY <1>4, <3>1 DEF OwnershipInv, TypeOK
    <3> QED
      BY <1>2, <1>4, <2>1, <3>1, <3>2 DEF OwnershipInv, TypeOK, NothingFreedTwice
  <2>4. Kinds'
    BY <1>1, <2>2 DEF NULL, Kinds, Pointer
  <2>5. Routed'
    BY <1>1, <1>2, <2>2 DEF NULL, Routed, NoDocument, Fields, Pointer
  <2>6. Targets(Fields \union {"doc"})' = (Targets(Fields \union {"doc"}) \ Targets(gone)) \union {"tree"}
    <3>1. Targets(Fields \union {"doc"})' = {ptr'["doc.dom"], ptr'["doc.tape"], ptr'["doc.words"],
               ptr'["doc.finish"], ptr'["doc.transcoded"], ptr'["doc"]} \ {NULL}
      BY DEF Targets, Fields
    <3>2. Targets(Fields \union {"doc"}) = {ptr["doc.dom"], ptr["doc.tape"], ptr["doc.words"],
               ptr["doc.finish"], ptr["doc.transcoded"], ptr["doc"]} \ {NULL}
      BY DEF Targets, Fields
    <3>3. Targets(gone) = {ptr["doc.tape"], ptr["doc.words"], ptr["doc.finish"]} \ {NULL}
      BY DEF Targets
    <3>4. ptr'["doc.transcoded"] = ptr["doc.transcoded"] /\ ptr'["doc"] = ptr["doc"]
      BY <2>2 DEF Pointer
    <3> QED
      BY <1>1, <2>2, <3>1, <3>2, <3>3, <3>4 DEF NULL, Kinds
  <2>7. Holding'
    BY <1>1, <1>2, <1>4, <2>2, <2>6 DEF Holding, Only, LazyWrapperFits, Fields
  <2>8. Targets({"doc.finish", "doc.transcoded"}) =
          Targets({"doc.finish"}) \union Targets({"doc.finish", "doc.transcoded"})'
    BY <2>2 DEF Targets, Pointer
  <2>9. Borrowed'
    BY <1>1, <1>2, <1>4, <2>8 DEF Borrowed
  <2> QED
    BY <2>3, <2>4, <2>5, <2>7, <2>9 DEF OwnershipInv
<1> QED
  BY <1>3, <1>4 DEF Materialize

\* yeptris_document_free releases every field once, and with it everything.
LEMMA FreeDocumentInv ==
  ASSUME OwnershipInv, FreeDocument
  PROVE  OwnershipInv'
<1>1. Fail(Fields \union {"doc"}, status, tls)
  BY DEF FreeDocument, Fail
<1>2. /\ Kinds /\ Targets(Fields \union {"doc"}) \subseteq heap
      /\ LazyWrapperFits => heap \subseteq Targets(Fields \union {"doc"})
  BY DEF OwnershipInv, FreeDocument, Holding, Only
<1>3. status \in Codes /\ tls \in Messages /\ Fields \union {"doc"} \in SUBSET Pointer
  BY DEF OwnershipInv, TypeOK, Codes, Messages, Fields, Pointer
<1>4. ~Aliased(Fields \union {"doc"})
  BY <1>2, Apart
<1> QED
  BY <1>1, <1>2, <1>3, <1>4, FailInv

\* What concerns none of the owner's state keeps the invariant (yeptris_push_parse).
LEMMA QuietInv ==
  ASSUME OwnershipInv, UNCHANGED <<pc, route, heap, ptr, refs, fault, calls>>,
         status' \in Codes, tls' \in Messages
  PROVE  OwnershipInv'
<1>1. TypeOK' /\ NothingFreedTwice' /\ Kinds'
  BY DEF OwnershipInv, TypeOK, NothingFreedTwice, Kinds, Codes, Messages
<1>2. Holding'
  <2>1. ASSUME NEW ps, Only(ps)
        PROVE  Only(ps)'
    BY <2>1 DEF Only, Targets, LazyWrapperFits
  <2>2. Parked => Parked'
    BY DEF Parked, Targets, LazyWrapperFits, lazy
  <2> QED
    BY <2>1, <2>2 DEF OwnershipInv, Holding
<1>3. Routed'
  BY Zenon DEF OwnershipInv, Routed, NoDocument, lazy
<1>4. Borrowed'
  BY DEF OwnershipInv, Borrowed, Targets, lazy
<1> QED
  BY <1>1, <1>2, <1>3, <1>4 DEF OwnershipInv

\* Nothing is held at first.
LEMMA InitInv ==
  ASSUME Calls \in Nat, Init
  PROVE  OwnershipInv
<1>1. \A p \in Pointer : ptr[p] = NULL
  BY DEF Init, AllNull
<1>2. TypeOK /\ NothingFreedTwice
  <2>1. ptr \in [Pointer -> Alloc \union {NULL}] /\ calls \in 0 .. Calls
    BY AllNullTyped DEF Init
  <2>2. route \in Route /\ heap \in SUBSET Alloc /\ refs \in SUBSET Alloc /\ fault \in BOOLEAN
    BY DEF Init, Route
  <2> QED
    BY <2>1, <2>2 DEF Init, TypeOK, NothingFreedTwice
<1>3. Kinds /\ Routed
  BY <1>1 DEF NULL, Init, Kinds, Routed, NoDocument, Fields, Pointer
<1>4. Targets(Fields \union {"doc"}) = {}
  BY <1>1 DEF Targets, Fields, Pointer
<1>5. Holding /\ Borrowed
  BY <1>1, <1>4 DEF Init, Holding, Only, Borrowed
<1> QED
  BY <1>2, <1>3, <1>5 DEF OwnershipInv

\* One step of a call, or of the host, keeps the ownership.
LEMMA StepInv ==
  ASSUME Calls \in Nat, OwnershipInv, [Next]_vars
  PROVE  OwnershipInv'
<1>1. status \in Codes /\ tls \in Messages
  BY DEF OwnershipInv, TypeOK, Codes, Messages
<1>2. CASE UNCHANGED vars
  BY <1>1, <1>2, QuietInv DEF vars
<1>3. CASE PushParse
  BY <1>3, QuietInv DEF PushParse, Codes, Messages
<1> QED
  BY <1>2, <1>3, ParseInv, ParseJsonInv, JsonWalkInv, JsonStrictInv, JsonBuildInv, FrontendInv,
     CreateEngineInv, CreateSinkInv, RunTapeInv, RunFailsInv, RunEngineInv, RunEventsInv, SettleInv,
     AllocDocInv, ParkBuffersInv, FillDocInv, MaterializeInv, FreeDocumentInv DEF Next

\* The ownership holds throughout, however many calls are made and whatever fails.
THEOREM OwnershipAlways ==
  ASSUME Calls \in Nat
  PROVE  Spec => []OwnershipInv
<1>1. Init => OwnershipInv
  BY InitInv
<1>2. OwnershipInv /\ [Next]_vars => OwnershipInv'
  BY StepInv
<1> QED
  BY <1>1, <1>2, PTL DEF Spec

\* As long as the two allocations of the lazy wrapper succeed, whatever else fails, one call
\* of yeptris_document_free releases everything, nothing is released twice, and a document
\* has its tree or the tape that can still become one (parse.c, yep_doc_dom).
THEOREM OwnedOnceAlways ==
  ASSUME Calls \in Nat, LazyWrapperFits
  PROVE  Spec => []OwnedOnce
<1>1. OwnershipInv => OwnedOnce
  <2>1. ASSUME OwnershipInv
        PROVE  EverythingOwned
    BY <2>1 DEF OwnershipInv, Holding, Only, EverythingOwned
  <2>2. ASSUME OwnershipInv
        PROVE  TreeOrTape
    BY <2>2 DEF OwnershipInv, Routed, TreeOrTape
  <2> QED
    BY <2>1, <2>2 DEF OwnedOnce, OwnershipInv
<1> QED
  BY <1>1, OwnershipAlways, PTL

\* Whatever fails, the wrapper included, nothing is freed twice, no failure leaves a document
\* without tree and tape, and the bytes its views point into live as long as it does.
THEOREM ViewsOutlivedAlways ==
  ASSUME Calls \in Nat
  PROVE  Spec => [](NothingFreedTwice /\ TreeOrTape /\ BytesOutliveViews)
<1>1. OwnershipInv => NothingFreedTwice /\ TreeOrTape /\ BytesOutliveViews
  <2>1. ASSUME OwnershipInv, pc = "idle"
        PROVE  refs \subseteq heap
    <3>1. Targets({"doc.finish", "doc.transcoded"}) \subseteq Targets(Fields \union {"doc"})
      BY DEF Targets, Fields
    <3> QED
      BY <2>1, <3>1 DEF OwnershipInv, Holding, Only, Borrowed
  <2> QED
    BY <2>1 DEF OwnershipInv, Routed, TreeOrTape, BytesOutliveViews
<1> QED
  BY <1>1, OwnershipAlways, PTL
=============================================================================

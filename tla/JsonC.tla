------------------------------- MODULE JsonC -------------------------------
(***************************************************************************)
(* The json-c face (jsonapi/jsonc_compat.c): wrappers over document nodes.  *)
(* A wrapper is pending (its payload has no document yet), the owner of a   *)
(* document, or attached to a node of another owner's document; adding a    *)
(* value moves it from one form to another, and the owner frees every       *)
(* wrapper of its registry when it is put.                                  *)
(*                                                                         *)
(* ident and asked are the reference: which json value a wrapper stands     *)
(* for, and what the caller has built of them.  pointers is the set of      *)
(* wrappers the caller may go on using.                                     *)
(***************************************************************************)
EXTENDS Integers, Sequences, SequencesExt, FiniteSets, FiniteSetsExt

CONSTANTS
  MaxWrappers, \* bound: wrappers made in one history
  MaxNodes,    \* bound: nodes made in one history
  Edges        \* the behaviours of section 5 of the README let in by a run

ASSUME WrapperBounds == MaxWrappers \in Nat /\ MaxNodes \in Nat
ASSUME EdgesAssumption == Edges \subseteq {"bottom_up", "insert"}

VARIABLES
  heap,  \* [w, nodes, docs, ndocs, twice]: wrappers, nodes, live documents, documents
         \* made, and whether something was freed a second time
  ident, \* wrapper -> value
  asked, \* value -> [kind, kids]: what the caller has built
  pointers \* wrappers the caller may use

JsonVars == <<heap, ident, asked, pointers>>

Key == "k"  \* the keys of an object differ in nothing else
NewKinds == {"object", "array", "scalar"}

Wrappers == DOMAIN heap.w

\* struct json_object: what it holds, the root that owns it, the registry of a
\* root and whether the wrapper is in one.
Wrapper(form, kind, doc, node, root, listed) ==
  [life |-> "live", form |-> form, kind |-> kind, doc |-> doc, node |-> node, root |-> root,
   registry |-> {}, listed |-> listed]

FreeAll(h, xs) ==
  [h EXCEPT !.w = [x \in DOMAIN h.w |-> IF x \in xs THEN [h.w[x] EXCEPT !.life = "freed"] ELSE h.w[x]],
            !.twice = @ \/ \E x \in xs : h.w[x].life = "freed"]

FreeDoc(h, d) == [h EXCEPT !.docs = @ \ {d}, !.twice = @ \/ d \notin h.docs]

NewNode(h, doc, kind) ==
  [h EXCEPT !.nodes = Append(@, [doc |-> doc, kind |-> kind, kids |-> <<>>])]

Kid(key, node) == [key |-> key, node |-> node]

----------------------------------------------------------------------------
(* Payload to node. *)

\* materialize_root: a pending wrapper becomes the owner of a document of its own.
materialize_root(h, o) ==
  LET d == h.ndocs + 1
      n == NewNode([h EXCEPT !.ndocs = d, !.docs = @ \cup {d}], d, h.w[o].kind)
  IN  [n EXCEPT !.w[o] = Wrapper("owner", h.w[o].kind, d, Len(n.nodes), h.w[o].root, TRUE)]

ensure_materialized(h, o) == IF h.w[o].form = "pending" THEN materialize_root(h, o) ELSE h

\* The nodes below n, and n: the least set with n that has the children of its nodes.
Subtree(nodes, n) ==
  LET all == {m \in DOMAIN nodes : nodes[m].doc = nodes[n].doc}
      closed == {S \in SUBSET all : n \in S /\ \A m \in S : \A i \in DOMAIN nodes[m].kids : nodes[m].kids[i].node \in S}
  IN  {m \in all : \A S \in closed : m \in S}

\* mutant: the copy keeps the children of the original
dup_into_Shallow(h, doc, n) ==
  [h EXCEPT !.nodes = Append(@, [doc |-> doc, kind |-> h.nodes[n].kind, kids |-> h.nodes[n].kids])]

\* dup_into: the subtree of node n again, in another document; n is copied first.
dup_into(h, doc, n) ==
  LET below == Subtree(h.nodes, n)
      order == CHOOSE s \in Bijection(1 .. Cardinality(below), below) : s[1] = n
      CopyOf(m) == Len(h.nodes) + CHOOSE i \in DOMAIN order : order[i] = m
      Copy(m) == [doc |-> doc, kind |-> h.nodes[m].kind,
                  kids |-> [i \in DOMAIN h.nodes[m].kids |->
                              Kid(h.nodes[m].kids[i].key, CopyOf(h.nodes[m].kids[i].node))]]
  IN  [h EXCEPT !.nodes = @ \o [i \in DOMAIN order |-> Copy(order[i])]]

\* mutant: the wrappers of the value's own registry are left as they are
Consume_KeepsRegistry(h, v) ==
  IF h.w[v].form = "pending" THEN [h EXCEPT !.w[v].form = "consumed"]
  ELSE [FreeDoc(h, h.w[v].doc) EXCEPT !.w[v].registry = {}]

\* What attach takes from the value before it inserts the node: the payload, or the
\* value's own document with its registry.
Consume(h, v) ==
  IF h.w[v].form = "pending" THEN [h EXCEPT !.w[v].form = "consumed"]
  ELSE [FreeDoc(FreeAll(h, h.w[v].registry), h.w[v].doc)
          EXCEPT !.w[v].registry = {}]

\* mutant: the wrapper stays registered with the parent it was added to
Retarget_ToParent(h, v, p, node, listed) ==
  [h EXCEPT !.w[v] = Wrapper("attached", h.w[v].kind, h.w[p].doc, node, p, listed),
            !.w[p].registry = IF listed THEN @ \cup {v} ELSE @]

\* The value's wrapper now stands for the new node and belongs to the parent's root; a
\* registry that cannot grow leaves it out.
Retarget(h, v, p, node, listed) ==
  LET root == h.w[p].root
  IN  [h EXCEPT !.w[v] = Wrapper("attached", h.w[v].kind, h.w[root].doc, node, root, listed),
                !.w[root].registry = IF listed THEN @ \cup {v} ELSE @]

\* Where a child goes: under its key, in place when the key is there, at idx, at the end.
Place(kids, key, idx) ==
  LET pos == IF key # "" THEN {i \in DOMAIN kids : kids[i].key = key} ELSE {idx} \cap DOMAIN kids
  IN  IF pos = {} THEN Len(kids) + 1 ELSE Max(pos)

Put(kids, key, idx, node) ==
  LET at == Place(kids, key, idx)
  IN  IF at > Len(kids) THEN Append(kids, Kid(key, node)) ELSE [kids EXCEPT ![at] = Kid(key, node)]

Insert(h, p, node, key, idx) ==
  [h EXCEPT !.nodes[h.w[p].node].kids = Put(@, key, idx, node)]

\* The node of the value in the parent's document: the first node made.
Moved(h, p, v) ==
  LET doc == h.w[h.w[p].root].doc
  IN  IF h.w[v].form = "pending" THEN NewNode(h, doc, h.w[v].kind)
      ELSE dup_into(h, doc, h.w[v].node)

\* attach, and the replacing half of json_object_array_put_idx: fail says which step
\* fails, "node" the copy, "insert" the insertion, "list" the registry.
attach(h, p, v, key, idx, fail) ==
  LET node == Len(h.nodes) + 1
      c == Consume(Moved(h, p, v), v)
  IN  IF fail = "node" THEN h
      ELSE IF fail = "insert" THEN c
      ELSE Retarget(Insert(c, p, node, key, idx), v, p, node, fail # "list")

----------------------------------------------------------------------------
(* Operations.  The caller uses only wrappers it holds. *)

New(w, kind) ==
  /\ heap' = [heap EXCEPT !.w = Append(@, w)]
  /\ pointers' = pointers \cup {Len(heap.w) + 1}
  /\ ident' = Append(ident, Len(asked) + 1)
  /\ asked' = Append(asked, [kind |-> kind, kids |-> <<>>])

\* json_object_new_*.
new_pending(kind) ==
  /\ Len(heap.w) < MaxWrappers
  /\ New(Wrapper("pending", kind, 0, 0, Len(heap.w) + 1, TRUE), kind)

\* json_tokener_parse_ex: an owner from the start (of an empty container).
json_tokener_parse_ex(kind) ==
  LET o == Len(heap.w) + 1
      h == materialize_root([heap EXCEPT !.w = Append(@, Wrapper("pending", kind, 0, 0, o, TRUE))], o)
  IN  /\ Len(heap.w) < MaxWrappers /\ Len(heap.nodes) < MaxNodes
      /\ heap' = h /\ pointers' = pointers \cup {o}
      /\ ident' = Append(ident, Len(asked) + 1)
      /\ asked' = Append(asked, [kind |-> kind, kids |-> <<>>])

\* Pointers to what hangs under a value die with the document the value leaves.
Borrowed(v) ==
  IF heap.w[v].form = "owner" /\ "bottom_up" \notin Edges
    THEN {x \in Wrappers \ {v} : heap.w[x].root = v} ELSE {}

Fails == {"none", "node", "list"} \cup (Edges \cap {"insert"})

\* json_object_object_add, json_object_array_add and json_object_array_put_idx: the
\* parent gets a document first; a value that has a parent is refused.  put_idx gives a
\* value it puts in place of another a document of its own before it copies it.
AddValue(p, v, key, idx, fail) ==
  LET h0 == ensure_materialized(heap, p)
      replaces == key = "" /\ idx <= Len(h0.nodes[h0.w[p].node].kids)
      h == IF replaces THEN ensure_materialized(h0, v) ELSE h0
      a == attach(h, p, v, key, idx, fail)
      refused == h.w[v].form \in {"attached", "consumed"}
      next == IF refused THEN h ELSE a
  IN  /\ p \in pointers /\ v \in pointers /\ p # v
      /\ heap.w[v].form = "owner" => heap.w[p].root # v  \* a value is not added below itself
      /\ heap.w[p].kind = IF key # "" THEN "object" ELSE "array"
      /\ idx <= Len(h0.nodes[h0.w[p].node].kids) + 1
      /\ Len(next.nodes) <= MaxNodes
      /\ refused => fail = "none"
      /\ heap' = next
      /\ pointers' = IF refused \/ fail = "node" THEN pointers ELSE pointers \ Borrowed(v)
      /\ IF refused \/ fail \in {"node", "insert"} THEN UNCHANGED asked
         ELSE asked' = [asked EXCEPT ![ident[p]].kids = Put(@, key, idx, ident[v])]
      /\ UNCHANGED ident

\* json_object_object_del and json_object_array_del_idx.
DelValue(p, i) ==
  LET h == ensure_materialized(heap, p)
  IN  /\ p \in pointers /\ heap.w[p].kind # "scalar" /\ Len(h.nodes) <= MaxNodes
      /\ i \in DOMAIN h.nodes[h.w[p].node].kids
      /\ heap' = [h EXCEPT !.nodes[h.w[p].node].kids = RemoveAt(@, i)]
      /\ asked' = [asked EXCEPT ![ident[p]].kids = RemoveAt(@, i)]
      /\ UNCHANGED <<ident, pointers>>

\* A new wrapper for a node, registered with the root.
child_of(h, from, node) ==
  LET o == Len(h.w) + 1
      root == h.w[from].root
      known == [h.w EXCEPT ![root].registry = @ \cup {o}]
  IN  [h EXCEPT !.w = Append(known, Wrapper("attached", h.nodes[node].kind, h.w[root].doc, node, root, TRUE))]

\* json_object_object_get_ex and json_object_array_get_idx; a pending wrapper has no
\* node and answers as if it were empty.
GetChild(p, i) ==
  /\ p \in pointers /\ heap.w[p].form \in {"owner", "attached"} /\ Len(heap.w) < MaxWrappers
  /\ i \in DOMAIN heap.nodes[heap.w[p].node].kids
  /\ heap' = child_of(heap, p, heap.nodes[heap.w[p].node].kids[i].node)
  /\ pointers' = pointers \cup {Len(heap.w) + 1}
  /\ ident' = Append(ident, asked[ident[p]].kids[i].node)
  /\ UNCHANGED asked

\* The getters and json_object_to_json_string_ext: a pending wrapper gets a document of
\* its own before it answers.
Query(o) ==
  /\ o \in pointers /\ heap.w[o].form = "pending" /\ Len(heap.nodes) < MaxNodes
  /\ heap' = materialize_root(heap, o)
  /\ UNCHANGED <<ident, asked, pointers>>

\* json_object_put: a pending wrapper goes, an owner takes its registry and its
\* document with it, an attached one is left to its root.
json_object_put(o) ==
  /\ o \in pointers
  /\ heap' = CASE heap.w[o].form = "pending" -> FreeAll(heap, {o})
               [] heap.w[o].form = "owner" ->
                    FreeAll(FreeDoc(FreeAll(heap, heap.w[o].registry), heap.w[o].doc), {o})
               [] OTHER -> heap
  /\ pointers' = IF heap.w[o].form = "attached" THEN pointers \ {o}
                 ELSE {x \in pointers : x # o /\ heap.w[x].root # o}
  /\ UNCHANGED <<ident, asked>>

----------------------------------------------------------------------------
JsonInit ==
  /\ heap = [w |-> <<>>, nodes |-> <<>>, docs |-> {}, ndocs |-> 0, twice |-> FALSE]
  /\ ident = <<>> /\ asked = <<>> /\ pointers = {}

JsonNext ==
  \/ \E kind \in NewKinds : new_pending(kind)
  \/ \E kind \in {"object", "array"} : json_tokener_parse_ex(kind)
  \/ \E p, v \in pointers, fail \in Fails : AddValue(p, v, Key, 0, fail)
  \/ \E p, v \in pointers, fail \in Fails, idx \in 1 .. MaxNodes : AddValue(p, v, "", idx, fail)
  \/ \E p \in pointers, i \in 1 .. MaxNodes : DelValue(p, i)
  \/ \E p \in pointers, i \in 1 .. MaxNodes : GetChild(p, i)
  \/ \E o \in pointers : Query(o) \/ json_object_put(o)

JsonSpec == JsonInit /\ [][JsonNext]_JsonVars

----------------------------------------------------------------------------
(* Properties. *)

JsonTypeOK ==
  /\ Len(heap.w) <= MaxWrappers /\ Len(heap.nodes) <= MaxNodes
  /\ \A x \in Wrappers :
       /\ heap.w[x].form \in {"pending", "consumed", "owner", "attached"}
       /\ heap.w[x].registry \subseteq Wrappers /\ heap.w[x].root \in Wrappers
  /\ pointers \subseteq Wrappers /\ DOMAIN ident = Wrappers

\* A pointer the caller holds stays valid until its root is put: the wrapper is not
\* freed, its document is alive and is its root's, and its root is an owner.
PointersStayValid ==
  \A x \in pointers :
    LET o == heap.w[x]
    IN  /\ o.life = "live"
        /\ o.form \in {"owner", "attached"} =>
             /\ o.doc \in heap.docs /\ heap.nodes[o.node].doc = o.doc
             /\ heap.w[o.root].life = "live" /\ heap.w[o.root].form = "owner"
             /\ heap.w[o.root].doc = o.doc

\* The wrappers the caller holds stay valid and the registries inside the heap
\* (jsonc_compat.c:12-13).
WrappersStayValid == JsonTypeOK /\ PointersStayValid

\* What the nodes of a graph read as, those of live to the depth of MaxNodes.
Reading(graph, live) ==
  LET at[k \in 0 .. MaxNodes] ==
        [n \in DOMAIN graph |->
           IF n \notin live THEN <<"freed">>
           ELSE IF k = 0 THEN <<graph[n].kind>>
           ELSE <<graph[n].kind, [i \in DOMAIN graph[n].kids |->
                                    <<graph[n].kids[i].key, at[k - 1][graph[n].kids[i].node]>>]>>]
  IN  at[MaxNodes]

LiveNodes(h) == {n \in DOMAIN h.nodes : h.nodes[n].doc \in h.docs}

\* Every pointer shows what was built through any other: a value that was moved by
\* copying, or changed below, reads as the caller built it (jsonc_compat.c, attach,
\* dup_into).
ReadsAsBuilt ==
  \A x \in pointers :
    heap.w[x].form \in {"owner", "attached"} =>
      Reading(heap.nodes, LiveNodes(heap))[heap.w[x].node] = Reading(asked, DOMAIN asked)[ident[x]]

\* Nothing is freed twice, and once every root is put nothing is left but wrappers a
\* full registry could not take (jsonc_compat.c, json_object_put).
ReleasedOnce ==
  /\ ~heap.twice
  /\ pointers = {} =>
       /\ heap.docs = {}
       /\ \A x \in Wrappers : heap.w[x].life = "freed" \/ ~heap.w[x].listed
=============================================================================

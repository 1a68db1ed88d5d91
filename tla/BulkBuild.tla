----------------------------- MODULE BulkBuild ------------------------------
(***************************************************************************)
(* yeptris_document_build (build.c): one call walks a list of entries in   *)
(* document order and builds a whole document with the mutation            *)
(* primitives.  Next takes one entry; Return is what follows the loop.     *)
(* The host's list is chosen entry by entry, so every list up to           *)
(* MaxEntries is walked, well formed or not.  A document may be built more *)
(* than once: the nodes a refused walk created stay in the arena.          *)
(***************************************************************************)
EXTENDS DomNodes

CONSTANTS
  MaxEntries,  \* bound: entries in the first list
  MaxLater,    \* bound: entries in the lists after it
  MaxBuilds,   \* bound: calls on one document
  Liberties    \* subset of AllLiberties: what the host's lists may hold

AllLiberties ==
  { "dangling",   \* a nested mapping closed after a key
    "boxedkey" }  \* a container where a key is due

ASSUME MaxEntriesAssumption == MaxEntries \in Nat /\ MaxLater \in Nat
ASSUME MaxBuildsAssumption == MaxBuilds \in Nat
ASSUME LibertiesAssumption == Liberties \subseteq AllLiberties

\* YeptrisBuildEntry: the op with the slice's text; "bad" is an op outside
\* the enumeration and "range" any entry whose slice leaves the blob.
Entry == [op : {"scalar"}, text : Text]
           \union [op : {"seq", "map", "end", "tag", "bad", "range"}, text : {Empty}]

Opens(e) == e.op \in {"seq", "map"}
Places(e) == e.op = "scalar" \/ Opens(e)

VARIABLES
  nodes, ncount, docs,  \* the document, as in DomTree
  tagged,               \* nodes whose tag view is set
  st,                   \* the open frames, innermost last: [id, isMap, keyPending]
  root, rootClosed, rootTagged,
  pendingKey,           \* the one buffered key of all frames
  lastId,               \* the node a TAG entry applies to
  rc,                   \* "walking" inside the loop, then the status returned
  walk,                 \* entries consumed by this call
  builds                \* calls begun

document == <<nodes, ncount, docs, tagged>>
locals == <<st, root, rootClosed, rootTagged, pendingKey, lastId>>
vars == <<document, locals, rc, walk, builds>>

Init ==
  /\ nodes = [i \in Id |-> Fresh("scalar", Empty)]
  /\ ncount = 0 /\ docs = << >> /\ tagged = {}
  /\ st = << >> /\ root = NIL /\ rootClosed = FALSE /\ rootTagged = FALSE
  /\ pendingKey = NIL /\ lastId = NIL
  /\ rc = "walking" /\ walk = << >> /\ builds = 1

Top == st[Len(st)]

Push(s, id, e) == Append(s, [id |-> id, isMap |-> e.op = "map", keyPending |-> FALSE])

\* The host's side of the contract, unless it takes the liberty.
HostMaySend(e) ==
  /\ \/ "dangling" \in Liberties
     \/ ~(e.op = "end" /\ Len(st) > 1 /\ Top.keyPending)
  /\ \/ "boxedkey" \in Liberties
     \/ ~(Opens(e) /\ st # << >> /\ Top.isMap /\ ~Top.keyPending)

\* A closed root takes no more entries, but for one TAG on itself.
PastTheRoot(e) == rootClosed /\ ~(e.op = "tag" /\ ~rootTagged /\ lastId = root)

-----------------------------------------------------------------------------
(* One entry.                                                              *)

Refuse(e, status) ==
  /\ rc' = status
  /\ UNCHANGED <<document, locals>>

\* The entries the loop refuses before it creates anything.
Malformed(e) ==
  \/ PastTheRoot(e)
  \/ e.op \in {"bad", "range"}
  \/ e.op = "end" /\ st = << >>
  \/ e.op = "tag" /\ lastId = NIL

\* yep_mut_scalar, _seq and _map fail when the arena cannot grow.
ArenaFull == ncount = MaxNodes

Tag(e) ==
  /\ e.op = "tag"
  /\ tagged' = tagged \union {lastId}
  /\ rootTagged' = rootClosed
  /\ UNCHANGED <<nodes, ncount, docs, st, root, rootClosed, pendingKey, lastId, rc>>

\* The closed frame's key_pending is cleared; the buffered key is not.
End(e) ==
  /\ e.op = "end"
  /\ st' = SubSeq(st, 1, Len(st) - 1)
  /\ rootClosed' = (Len(st) = 1)
  /\ UNCHANGED <<document, root, rootTagged, pendingKey, lastId, rc>>

\* Placing a fresh node as the root, as a key, as a value or as an item.
PlaceRoot(e, made) ==
  /\ st = << >>
  /\ nodes' = made
  /\ root' = IF root = NIL THEN ncount ELSE root
  /\ rc' = IF root = NIL THEN rc ELSE "parse"
  /\ rootClosed' = IF root = NIL THEN ~Opens(e) ELSE rootClosed
  /\ st' = IF root = NIL /\ Opens(e) THEN Push(st, ncount, e) ELSE st
  /\ UNCHANGED pendingKey

\* Only the key's id is buffered: a container met here is not opened.
PlaceKey(e, made) ==
  /\ st # << >> /\ Top.isMap /\ ~Top.keyPending
  /\ nodes' = made
  /\ st' = [st EXCEPT ![Len(st)].keyPending = TRUE]
  /\ pendingKey' = ncount
  /\ UNCHANGED <<root, rootClosed, rc>>

\* Mutant: the pair is linked value first.
Linked_ValueFirst(made) ==
  IF Top.isMap THEN mut_link(mut_link(made, Top.id, ncount), Top.id, pendingKey)
  ELSE mut_link(made, Top.id, ncount)

\* yep_mut_map_append, without a duplicate scan, or yep_mut_seq_add.
Linked(made) ==
  IF Top.isMap THEN mut_link(mut_link(made, Top.id, pendingKey), Top.id, ncount)
  ELSE mut_link(made, Top.id, ncount)

\* The frames once the value or item is linked.
AfterLink(e) ==
  LET paired == [st EXCEPT ![Len(st)].keyPending = FALSE]
  IN  IF Opens(e) THEN Push(paired, ncount, e) ELSE paired

\* A refused link, or a container past the cap, ends the walk.
PlaceChild(e, made) ==
  LET fits == mut_attach_ok(made, ncount + 1, Top.id, ncount)
      open == fits /\ ~(Opens(e) /\ Len(st) >= MaxDepth)
  IN  /\ st # << >> /\ (Top.isMap => Top.keyPending)
      /\ nodes' = IF fits THEN Linked(made) ELSE made
      /\ pendingKey' = IF fits /\ Top.isMap THEN NIL ELSE pendingKey
      /\ st' = IF open THEN AfterLink(e) ELSE st
      /\ rc' = IF open THEN rc ELSE "depth"
      /\ UNCHANGED <<root, rootClosed>>

Place(e) ==
  /\ Places(e)
  /\ LET made == [nodes EXCEPT ![ncount] =
                    Fresh(e.op, IF e.op = "scalar" THEN e.text ELSE Empty)]
     IN  PlaceRoot(e, made) \/ PlaceKey(e, made) \/ PlaceChild(e, made)
  /\ ncount' = ncount + 1
  /\ lastId' = ncount
  /\ UNCHANGED <<docs, tagged, rootTagged>>

Take(e) ==
  /\ rc = "walking"
  /\ Len(walk) < (IF builds = 1 THEN MaxEntries ELSE MaxLater)
  /\ HostMaySend(e)
  /\ walk' = Append(walk, e)
  /\ \/ Malformed(e) /\ Refuse(e, "parse")
     \/ ~Malformed(e) /\ Places(e) /\ ArenaFull /\ Refuse(e, "memory")
     \/ ~Malformed(e) /\ ~(Places(e) /\ ArenaFull) /\ (Tag(e) \/ End(e) \/ Place(e))
  /\ UNCHANGED builds

-----------------------------------------------------------------------------
(* After the loop.                                                         *)


Unfinished == st # << >> \/ root = NIL \/ pendingKey # NIL

TooTall == mut_height(nodes, root) + 1 > MaxDepth

Return ==
  /\ rc = "walking"
  /\ \/ Unfinished /\ rc' = "parse" /\ UNCHANGED document
     \/ ~Unfinished /\ TooTall /\ rc' = "depth" /\ UNCHANGED document
     \/ /\ ~Unfinished /\ ~TooTall
        /\ rc' = "ok"
        /\ nodes' = yep_mut_set_depths([nodes EXCEPT ![root].att = TRUE], root, 0)
        /\ docs' = Append(docs, root)
        /\ UNCHANGED <<ncount, tagged>>
  /\ UNCHANGED <<locals, walk, builds>>

\* Mutant: the node that TAG applies to survives from the call before.
Again_KeepsLast ==
  /\ rc # "walking"
  /\ builds < MaxBuilds
  /\ st' = << >> /\ root' = NIL /\ rootClosed' = FALSE /\ rootTagged' = FALSE
  /\ pendingKey' = NIL
  /\ rc' = "walking" /\ walk' = << >> /\ builds' = builds + 1
  /\ UNCHANGED <<document, lastId>>

\* The next call on the same document.
Again ==
  /\ rc # "walking"
  /\ builds < MaxBuilds
  /\ st' = << >> /\ root' = NIL /\ rootClosed' = FALSE /\ rootTagged' = FALSE
  /\ pendingKey' = NIL /\ lastId' = NIL
  /\ rc' = "walking" /\ walk' = << >> /\ builds' = builds + 1
  /\ UNCHANGED document

Next == (\E e \in Entry : Take(e)) \/ Return \/ Again

Spec == Init /\ [][Next]_vars

-----------------------------------------------------------------------------
(* The lists the header describes, without a stack.                        *)

\* Containers open after the first i entries.
Open(i) ==
  Cardinality({j \in 1 .. i : Opens(walk[j])}) - Cardinality({j \in 1 .. i : walk[j].op = "end"})

\* The entries placed directly in the container opened by entry p.
Within(p) ==
  {q \in (p + 1) .. Len(walk) :
     /\ Places(walk[q])
     /\ Open(q - 1) = Open(p)
     /\ \A r \in p .. (q - 1) : Open(r) >= Open(p)}

\* The list without the TAG a scalar or empty root may carry at the end.
LastPlaced == CHOOSE j \in 1 .. Len(walk) :
                Places(walk[j]) /\ \A k \in (j + 1) .. Len(walk) : ~Places(walk[k])
Body == IF Len(walk) > 1 /\ walk[Len(walk)].op = "tag" /\ Open(Len(walk)) = 0 /\ LastPlaced = 1
        THEN Len(walk) - 1 ELSE Len(walk)

WellFormed ==
  /\ walk # << >>
  /\ \A i \in 1 .. Len(walk) : walk[i].op \notin {"bad", "range"}
  /\ Places(walk[1])
  /\ \A i \in 1 .. (Body - 1) : Open(i) > 0
  /\ Open(Body) = 0
  /\ \A p \in 1 .. Len(walk) : walk[p].op = "map" => Cardinality(Within(p)) % 2 = 0

\* The levels a list needs: what the cap is compared with.
Levels == IF \A i \in 1 .. Len(walk) : ~Places(walk[i]) THEN 0
          ELSE LET lv == {Open(i - 1) + 1 : i \in {j \in 1 .. Len(walk) : Places(walk[j])}}
               IN  CHOOSE m \in lv : \A n \in lv : n <= m

\* The entries that would build the tree below id.
Flatten(id) ==
  LET flat[d \in Nat, i \in Link] ==
        IF d = 0 \/ i = NIL THEN << >>
        ELSE LET kids == ChildSeq(nodes, i)
                 sub[k \in Nat] == IF k = 0 THEN << >> ELSE sub[k - 1] \o flat[d - 1, kids[k]]
             IN  IF nodes[i].kind = "scalar" THEN << [op |-> "scalar", text |-> nodes[i].value] >>
                 ELSE << [op |-> nodes[i].kind, text |-> Empty] >> \o sub[Len(kids)]
                         \o << [op |-> "end", text |-> Empty] >>
  IN  flat[MaxNodes + 1, id]

-----------------------------------------------------------------------------
(* Properties.                                                             *)

\* Links, counts and depths stay inside the arena and their widths, and the
\* walk's locals name nodes that exist (build.c:219-244).
TypeOK ==
  /\ nodes \in [Id -> DNode]
  /\ ncount \in 0 .. MaxNodes
  /\ docs \in Seq(Id)
  /\ tagged \in SUBSET Id
  /\ st \in Seq([id : Id, isMap : BOOLEAN, keyPending : BOOLEAN])
  /\ root \in Link /\ pendingKey \in Link /\ lastId \in Link
  /\ rootClosed \in BOOLEAN /\ rootTagged \in BOOLEAN
  /\ rc \in {"walking", "ok", "parse", "depth", "memory"}
  /\ walk \in Seq(Entry)
  /\ builds \in Nat


\* The document of an accepted list holds its entries, all of them, in their
\* order and nesting; only TAG entries place nothing (dom.h:166-171).
AcceptedListIsKept ==
  rc = "ok" => Flatten(root) = SelectSeq(walk, LAMBDA e : e.op # "tag")

\* Between two entries the open frames are a chain from the root, each the
\* last child of the one before or its buffered key's mapping, so that END
\* returns to the container that the tree says is the parent (build.c:284-299).
FramesFollowTree ==
  rc = "walking" =>
    /\ st # << >> => st[1].id = root
    /\ \A i \in 2 .. Len(st) : nodes[st[i - 1].id].last = st[i].id
    /\ \A i \in 1 .. Len(st) : st[i].isMap = (nodes[st[i].id].kind = "map")

\* What END and a placed value go by stays true of the tree, and an accepted list is the
\* document (build.c:284-299; dom.h:166-171).
BuildsTheList == TypeOK /\ FramesFollowTree /\ AcceptedListIsKept

\* Building a document, whether it is accepted or refused half-way, leaves
\* the stream's earlier documents with their entries and their tags.
EarlierDocumentsKept ==
  [][\A i \in DOMAIN docs :
       /\ docs'[i] = docs[i]
       /\ Flatten(docs[i])' = Flatten(docs[i])
       /\ (tagged \intersect Subtree(nodes, docs[i]))'
            = tagged \intersect Subtree(nodes, docs[i])]_vars

\* Duplicate keys keep the last value (dom.h:173), as a lookup sees it.
DuplicateKeepsLast ==
  rc = "ok" =>
    \A m \in Subtree(nodes, root) : nodes[m].kind = "map" =>
      LET keys == ScalarKeys(nodes, m)
      IN  \A i \in DOMAIN keys :
            (\A j \in DOMAIN keys : nodes[keys[j]].value = nodes[keys[i]].value => j <= i)
              => Probe(nodes, keys, nodes[keys[i]].value) = keys[i]
=============================================================================

------------------------------ MODULE DomTree -------------------------------
(***************************************************************************)
(* A document under the public mutation and query API (build.c over        *)
(* dom/mutate.c; yeptris_node_seq_at, _map_at and _map_get of parse.c over *)
(* the child cache of dom/dom.c and the key index of dom/mapindex.c).  One *)
(* action per call.  A refused call (a negative status) changes nothing,   *)
(* so the guards of an action are the conditions under which it succeeds;  *)
(* map_place_pair's key node is retracted on refusal and leaves no trace.  *)
(*                                                                         *)
(* The host picks any live node as an argument.  Liberties names the       *)
(* usages whose effect on the tree is asked separately.                    *)
(***************************************************************************)
EXTENDS DomNodes

CONSTANTS
  Start,      \* the document the calls begin with: [nodes, ncount, docs], and
              \* parsed, the nodes in it that the parser placed
  Liberties,  \* subset of AllLiberties
  Makes,      \* bound: the kinds of node the host creates on the way
  MaxRoots,   \* bound: documents in the stream
  Reads       \* bound: the kinds of indexed read, subset of {"at", "get"}

AllLiberties ==
  { "reuse",      \* attach again a value that map_set displaced
    "sharedkey",  \* hand map_add_node a key that is attached, or is the value
    "graft",      \* attach a collection that already has children
    "cycle",      \* add to a collection one of its own ancestors
    "reindex",    \* replace a child of the collection that was indexed last
    "parsed" }    \* attach a node that the parser placed

ASSUME LibertiesAssumption == Liberties \subseteq AllLiberties
ASSUME MakesAssumption == Makes \subseteq Kinds
ASSUME StartAssumption ==
  /\ Start.nodes \in [Id -> DNode]
  /\ Start.ncount \in 0 .. MaxNodes
  /\ Start.docs \in Seq(Id)
  /\ Start.parsed \in SUBSET Id

\* The child lists of the first nc cells, as the walks find them.
Lists(n, nc) == [p \in Id |-> IF p < nc THEN ChildSeq(n, p) ELSE << >>]

\* c has a place: under a parent, or as a root.
Placed(K, ds, c) ==
  \/ \E p \in Id : \E i \in 1 .. Len(K[p]) : K[p][i] = c
  \/ \E i \in 1 .. Len(ds) : ds[i] = c

RootsApart(L, K, ds) ==
  /\ ds \in Seq(L)
  /\ \A i, j \in 1 .. Len(ds) : ds[i] = ds[j] => i = j
  /\ \A p \in Id : \A i \in 1 .. Len(K[p]), j \in 1 .. Len(ds) : K[p][i] # ds[j]

Paired(n, s) ==
  /\ Len(s) % 2 = 0
  /\ \A i, j \in 1 .. Len(s) :
       i % 2 = 1 /\ j % 2 = 1 /\ i < j /\ n[s[j]].kind = "scalar"
         => n[s[i]].value # n[s[j]].value

Marked(n, L, K, ds, gone) ==
  \A c \in L :
    /\ n[c].att => Placed(K, ds, c)
    /\ Placed(K, ds, c) => n[c].att \/ c \in Start.parsed
    /\ Placed(K, ds, c) \/ c \in gone \/ n[c].next = NIL

\* A document is whole: its links spell out child lists, its roots stand
\* apart from them, mappings hold pairs whose scalar keys repeat no earlier
\* key's text, and the attached bit marks the nodes with a place (the parser
\* places nodes without marking them).  A node without a place has no
\* sibling link left, unless map_set displaced it.
Whole(n, nc, ds, gone) ==
  LET L == 0 .. (nc - 1)
      K == Lists(n, nc)
  IN  /\ Sound(n, L, K)
      /\ RootsApart(L, K, ds)
      /\ \A m \in L : n[m].kind = "map" => Paired(n, K[m])
      /\ Marked(n, L, K, ds, gone)

VARIABLES
  nodes,     \* d->nodes with the side tables mut_att and mut_depth
  ncount,    \* d->ncount
  docs,      \* d->docs[0 .. dcount-1]
  tabs,      \* d->midx.tabs: per mapping, NoTab or the indexed keys in order
  cache,     \* d->child_cache_id and d->child_cache[0 .. len-1]
  displaced  \* history: values map_set took out of a mapping

vars == <<nodes, ncount, docs, tabs, cache, displaced>>
caches == <<tabs, cache>>

NoTab == <<NIL>>
NoCache == [id |-> NIL, ids |-> << >>]

Live == 0 .. (ncount - 1)

Init ==
  /\ nodes = Start.nodes
  /\ ncount = Start.ncount
  /\ docs = Start.docs
  /\ tabs = [i \in Id |-> NoTab]
  /\ cache = NoCache
  /\ displaced = {}

-----------------------------------------------------------------------------
(* What the host does with a node it attaches.                             *)

HostMayAttach(p, v) ==
  /\ "reuse" \in Liberties \/ v \notin displaced
  /\ "graft" \in Liberties \/ nodes[v].count = 0
  /\ "cycle" \in Liberties \/ p \notin Subtree(nodes, v)
  /\ "parsed" \in Liberties \/ v \notin Start.parsed

HostMayReplaceIn(p) == "reindex" \in Liberties \/ cache.id # p

HostMayKey(k, v) == "sharedkey" \in Liberties \/ (k # v /\ ~nodes[k].att)

IsSeq(s) == s \in Live /\ nodes[s].kind = "seq"
IsMap(m) == m \in Live /\ nodes[m].kind = "map"

\* dom_new_node fails when the arena cannot grow.
CanCreate == ncount < MaxNodes

-----------------------------------------------------------------------------
(* Creating nodes.                                                         *)

New(kind, text) ==
  /\ kind \in Makes
  /\ CanCreate
  /\ nodes' = [nodes EXCEPT ![ncount] = Fresh(kind, text)]
  /\ ncount' = ncount + 1
  /\ UNCHANGED <<docs, caches, displaced>>

NewScalar(text) == New("scalar", text)
NewSequence == New("seq", Empty)
NewMapping == New("map", Empty)
NewAlias(name) == ncount > 0 /\ New("alias", name)

-----------------------------------------------------------------------------
(* Sequences.                                                              *)

SeqAdd(s, v) ==
  /\ IsSeq(s)
  /\ mut_attach_ok(nodes, ncount, s, v)
  /\ HostMayAttach(s, v)
  /\ nodes' = mut_link(nodes, s, v)
  /\ cache' = NoCache
  /\ UNCHANGED <<ncount, docs, tabs, displaced>>

\* The replaced child is found by index; the child cache is not invalidated.
SeqSet(s, index, v) ==
  /\ IsSeq(s)
  /\ index < nodes[s].count
  /\ mut_attach_ok(nodes, ncount, s, v)
  /\ HostMayAttach(s, v)
  /\ HostMayReplaceIn(s)
  /\ s \notin Subtree(nodes, v)     \* yep_mut_set_depths would not return
  /\ \E cur \in Id :
       /\ cur = NthChild(nodes, s, index)
       /\ nodes' = seq_splice(nodes, s, cur, v)
  /\ UNCHANGED <<ncount, docs, caches, displaced>>

\* Mutant: the child cache outlives the deletion.
SeqDel_KeepsCache(s, index) ==
  /\ IsSeq(s)
  /\ index < nodes[s].count
  /\ \E c \in Id : c = NthChild(nodes, s, index) /\ nodes' = unlink_child(nodes, s, c)
  /\ UNCHANGED <<ncount, docs, caches, displaced>>

SeqDel(s, index) ==
  /\ IsSeq(s)
  /\ index < nodes[s].count
  /\ \E c \in Id :
       /\ c = NthChild(nodes, s, index)
       /\ CanUnlink(nodes, s, c)
       /\ nodes' = unlink_child(nodes, s, c)
  /\ cache' = NoCache
  /\ UNCHANGED <<ncount, docs, tabs, displaced>>

-----------------------------------------------------------------------------
(* Mappings.                                                               *)

\* map_place_pair: a fresh key scalar, then both links, then the key index
\* of the mapping is dropped.
PlacePair(m, key, v) ==
  /\ CanCreate
  /\ mut_attach_ok(nodes, ncount, m, v)
  /\ LET keyed == [nodes EXCEPT ![ncount] = Fresh("scalar", key)]
     IN  nodes' = mut_link(mut_link(keyed, m, ncount), m, v)
  /\ ncount' = ncount + 1
  /\ tabs' = [tabs EXCEPT ![m] = NoTab]
  /\ cache' = NoCache
  /\ UNCHANGED <<docs, displaced>>

MapAdd(m, key, v) ==
  /\ IsMap(m)
  /\ map_find(nodes, m, key) = NIL
  /\ HostMayAttach(m, v)
  /\ PlacePair(m, key, v)

\* A key that is present keeps its position and swaps its value; the child
\* cache is not invalidated.
MapReplace(m, key, v) ==
  /\ IsMap(m)
  /\ mut_attach_ok(nodes, ncount, m, v)
  /\ HostMayAttach(m, v)
  /\ HostMayReplaceIn(m)
  /\ m \notin Subtree(nodes, v)     \* yep_mut_set_depths would not return
  /\ \E k \in Id :
       /\ k = map_find(nodes, m, key)
       /\ nodes[k].next # NIL
       /\ nodes' = map_splice(nodes, m, k, v)
       /\ displaced' = displaced \union {nodes[k].next}
  /\ tabs' = [tabs EXCEPT ![m] = NoTab]
  /\ UNCHANGED <<ncount, docs, cache>>

\* map_set of an absent key does what map_add does.
MapSet(m, key, v) == MapReplace(m, key, v) \/ MapAdd(m, key, v)

\* The key is linked whatever its attached bit says: only the value is
\* checked.
MapAddNode(m, k, v) ==
  /\ IsMap(m)
  /\ k \in Live
  /\ map_find(nodes, m, nodes[k].value) = NIL
  /\ mut_attach_ok(nodes, ncount, m, v)
  /\ HostMayAttach(m, v)
  /\ HostMayKey(k, v)
  /\ HostMayAttach(m, k)
  /\ nodes' = mut_link(mut_link(nodes, m, k), m, v)
  /\ tabs' = [tabs EXCEPT ![m] = NoTab]
  /\ cache' = NoCache
  /\ UNCHANGED <<ncount, docs, displaced>>

MapDel(m, key) ==
  /\ IsMap(m)
  /\ \E k \in Id :
       /\ k = map_find(nodes, m, key)
       /\ CanUnlink(nodes, m, k)
       /\ LET v == nodes[k].next
              cut == unlink_child(nodes, m, k)
          IN  nodes' = IF CanUnlink(cut, m, v) THEN unlink_child(cut, m, v) ELSE cut
  /\ tabs' = [tabs EXCEPT ![m] = NoTab]
  /\ cache' = NoCache
  /\ UNCHANGED <<ncount, docs, displaced>>

-----------------------------------------------------------------------------
(* Roots and reads.                                                        *)

SetRoot(r) ==
  /\ r \in Live
  /\ Len(docs) < MaxRoots
  /\ ~nodes[r].att
  /\ "reuse" \in Liberties \/ r \notin displaced
  /\ "parsed" \in Liberties \/ r \notin Start.parsed
  /\ mut_height(nodes, r) + 1 <= MaxDepth
  /\ nodes' = yep_mut_set_depths([nodes EXCEPT ![r].att = TRUE], r, 0)
  /\ docs' = Append(docs, r)
  /\ UNCHANGED <<ncount, caches, displaced>>

\* dom_indexed_child: a hit answers from the cache, a miss rebuilds it with
\* at most count ids.
SeqAt(p) ==
  /\ "at" \in Reads
  /\ p \in Live
  /\ nodes[p].kind \in {"seq", "map"}
  /\ cache' = IF cache.id = p THEN cache
              ELSE [id |-> p,
                    ids |-> LET s == ChildSeq(nodes, p)
                            IN  IF Len(s) <= nodes[p].count THEN s
                                ELSE SubSeq(s, 1, nodes[p].count)]
  /\ UNCHANGED <<nodes, ncount, docs, tabs, displaced>>

\* yep_midx_lookup builds the mapping's table on its first use.
MapGet(m) ==
  /\ "get" \in Reads
  /\ IsMap(m)
  /\ tabs' = [tabs EXCEPT ![m] = IF @ = NoTab THEN ScalarKeys(nodes, m) ELSE @]
  /\ UNCHANGED <<nodes, ncount, docs, cache, displaced>>

Next ==
  \/ \E t \in Text : NewScalar(t) \/ NewAlias(t)
  \/ NewSequence \/ NewMapping
  \/ \E s, v \in Live : SeqAdd(s, v)
  \/ \E s, v \in Live, i \in 0 .. MaxNodes : SeqSet(s, i, v)
  \/ \E s \in Live, i \in 0 .. MaxNodes : SeqDel(s, i)
  \/ \E m, v \in Live, t \in Text : MapSet(m, t, v)
  \/ \E m, k, v \in Live : MapAddNode(m, k, v)
  \/ \E m \in Live, t \in Text : MapDel(m, t)
  \/ \E r \in Live : SetRoot(r)
  \/ \E p \in Live : SeqAt(p) \/ MapGet(p)

Spec == Init /\ [][Next]_vars

-----------------------------------------------------------------------------
(* Properties.                                                             *)

\* Every link, count and depth stays inside the arena and its width, and the
\* roots are nodes (yep_dnode, dom.h).
TypeOK ==
  /\ nodes \in [Id -> DNode]
  /\ ncount \in 0 .. MaxNodes
  /\ docs \in Seq(Id)
  /\ DOMAIN tabs = Id
  /\ cache.id \in Link
  /\ displaced \in SUBSET Id

Tree == INSTANCE OrderedTree
          WITH Node <- Id, live <- Live, kids <- Lists(nodes, ncount), roots <- docs

\* The chains of sibling links implement ordered child lists: each call edits
\* one list at one place, keeps every other child where it was, and takes in
\* only nodes that were nowhere in the tree (include/yeptris/dom.h:94-98).
ImplementsOrderedTree == Tree!Spec

\* No node has two parents, two places, or a parent and a root entry
\* (include/yeptris/dom.h:94; mutate.c:7).
OneParent == Tree!OneParent

\* count and last_child, which dom_link trusts to append, agree with the
\* chain that every walk follows (dom.c:296-308, mutate.c:248-277).
CountsMatchChain ==
  \A p \in Live :
    LET s == ChildSeq(nodes, p)
    IN  /\ nodes[p].count = Len(s)
        /\ s # << >> => nodes[p].last = s[Len(s)]

\* Mapping children are balanced key/value pairs (mutate.c:7-8), and no scalar
\* key of a mapping repeats the text of an earlier key.
PairsBalanced ==
  \A m \in Live : nodes[m].kind = "map" => Paired(nodes, ChildSeq(nodes, m))

\* The attached bit, the only thing mut_attach_ok asks to refuse a second
\* parent, is set exactly for the nodes that have a place (mutate.c:135-138),
\* the ones that the parser placed aside.
AttachedMeansPlaced ==
  LET K == Lists(nodes, ncount)
  IN  \A c \in Live \ Start.parsed : nodes[c].att <=> Placed(K, docs, c)

\* No tree nests deeper than the cap: trees deeper than it are rejected
\* (include/yeptris/dom.h:96-97).
NestingCapped == \A p \in Live : mut_height(nodes, p) <= MaxDepth

\* Child c, the i-th of p, lies deeper than p, the key of a pair by one, and a node at the
\* cap has no children.
BelowParent(n, p, i, c) ==
  /\ n[p].depth < MaxDepth
  /\ n[p].depth < n[c].depth
  /\ n[p].kind = "map" /\ i % 2 = 1 => n[c].depth = n[p].depth + 1

\* The depths recorded are enough to keep the cap by: what NestingCapped rests on while
\* the host attaches nodes without children only.
Leveled(n, L, K) == \A p \in L : \A i \in 1 .. Len(K[p]) : BelowParent(n, p, i, K[p][i])
LevelInv == Leveled(nodes, Live, Lists(nodes, ncount))

\* A mapping's key index is absent or holds exactly its scalar keys in child
\* order, so that a hit is the key the linear scan would return
\* (mapindex.h:6-8; mapindex.c:36-74, 144-155).
IndexCoherent ==
  \A m \in Live : tabs[m] # NoTab => tabs[m] = ScalarKeys(nodes, m)

\* The cached child ids are the children of the container they are cached
\* for ("invalidated by every child-list mutation", dom.h:132-135).
ChildCacheCoherent ==
  cache.id # NIL => cache.ids = ChildSeq(nodes, cache.id)

\* The arena's records stay what the walks take them for: counts and last
\* children agree with the chains, mappings hold pairs under different keys,
\* and the attached bit is set for exactly the placed nodes (mutate.c:7-8,
\* 135-138).
ChainsSound == TypeOK /\ CountsMatchChain /\ PairsBalanced /\ AttachedMeansPlaced

\* What is kept beside the tree to find children fast is what a walk of the
\* chains would find: the cached children (dom.h:132-135) and every mapping's
\* key index (mapindex.c:36-74).
CachesCoherent == ChildCacheCoherent /\ IndexCoherent

-----------------------------------------------------------------------------
(* The invariants that a step preserves, from which the above follow.      *)

DocumentInv == TypeOK /\ Whole(nodes, ncount, docs, displaced)

\* Only mappings in use have a key index, and only nodes in use are cached.
CacheInv ==
  /\ \A m \in Id : tabs[m] # NoTab => IsMap(m)
  /\ cache.id \in Live \union {NIL}
  /\ CachesCoherent
=============================================================================

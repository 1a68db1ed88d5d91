------------------------------ MODULE DomNodes ------------------------------
(***************************************************************************)
(* The node arena of a document (dom/dom.h, dom/dom.c) and the mutation    *)
(* primitives over it (dom/mutate.c), as operators from one arena value to *)
(* the next.  A node is a cell of an array; children form a singly linked  *)
(* chain first_child -> next_sibling -> ... with last_child and count kept *)
(* beside it; the attached bit and the depth are the mutation side tables. *)
(* DomTree and BulkBuild take their steps with these operators.            *)
(*                                                                         *)
(* Walks along the chain are recursive functions of the number of hops, so *)
(* that a corrupted (shared or cyclic) chain still has a value.            *)
(***************************************************************************)
EXTENDS Integers, Sequences, FiniteSets

CONSTANTS
  MaxNodes,   \* bound: capacity of the node arena (growth beyond it fails)
  Wrap32,     \* 2^32, where a uint32_t wraps (TLC: any bound past MaxNodes)
  Wrap16,     \* 2^16, where a uint16_t wraps
  MaxDepth,   \* YEP_DOM_MAX_DEPTH
  Text,       \* the scalar texts and keys the host uses
  Empty       \* the empty text, which is also a collection's value view

ASSUME MaxNodesAssumption == MaxNodes \in Nat \ {0}
ASSUME Wrap32Assumption == Wrap32 \in Nat /\ Wrap32 > MaxNodes
ASSUME MaxDepthAssumption == MaxDepth \in Nat \ {0}
ASSUME Wrap16Assumption == Wrap16 \in Nat /\ Wrap16 > MaxDepth + 1
ASSUME TextAssumption == Empty \in Text

Id == 0 .. (MaxNodes - 1)
NIL == MaxNodes                      \* UINT32_MAX: larger than every id
Link == Id \union {NIL}

Kinds == {"scalar", "seq", "map", "alias"}
U32 == 0 .. (Wrap32 - 1)              \* uint32_t
U16 == 0 .. (Wrap16 - 1)             \* uint16_t

DNode == [kind : Kinds, value : Text, first : Link, last : Link, next : Link,
          count : U32, att : BOOLEAN, depth : U16]

\* dom_new_node: a cleared cell, unattached, depth 0.
Fresh(kind, text) ==
  [kind |-> kind, value |-> text, first |-> NIL, last |-> NIL, next |-> NIL,
   count |-> 0, att |-> FALSE, depth |-> 0]

-----------------------------------------------------------------------------
(* Walking a child chain.                                                  *)

\* The children in order, as every chain walk of the code visits them; a
\* chain that does not end is cut after MaxNodes + 1 hops.
ChildSeq(n, p) ==
  LET walk[hops \in Nat] ==
        [x \in Link |-> IF x = NIL \/ hops = 0 THEN << >>
                        ELSE <<x>> \o walk[hops - 1][n[x].next]]
  IN  walk[MaxNodes + 1][n[p].first]

ChainLen(n, p) == Len(ChildSeq(n, p))

\* The child k hops along next_sibling from p's first child.
NthChild(n, p, k) ==
  LET s == ChildSeq(n, p) IN IF k < Len(s) THEN s[k + 1] ELSE NIL

Elems(s) == {s[i] : i \in DOMAIN s}
Children(n, p) == Id \intersect Elems(ChildSeq(n, p))

\* Nodes exactly j levels below v.
Level(n, v, j) ==
  LET lv[k \in Nat] == IF k = 0 THEN {v}
                       ELSE UNION {Children(n, x) : x \in lv[k - 1]}
  IN  lv[j]

\* v and everything below it.
Subtree(n, v) ==
  LET below[k \in Nat] ==
        [front \in SUBSET Id |->
           IF k = 0 \/ front = {} THEN front
           ELSE front \union below[k - 1][UNION {Children(n, x) : x \in front}]]
  IN  below[MaxNodes][{v}]

\* mut_height: levels below v (MaxNodes when v lies on a cycle).
mut_height(n, v) ==
  CHOOSE h \in 0 .. MaxNodes :
    /\ Level(n, v, h) # {}
    /\ h = MaxNodes \/ Level(n, v, h + 1) = {}

-----------------------------------------------------------------------------
(* What the walks rely on: the sibling links spell out ordered child lists *)
(* K, K[p] being the list of p, for the nodes L made so far.               *)

After(s, i) == IF i < Len(s) THEN s[i + 1] ELSE NIL

\* Following next_sibling from x visits s and ends.
Chain(n, x, s) ==
  /\ x = After(s, 0)
  /\ \A i \in 1 .. Len(s) : n[s[i]].next = After(s, i)

\* first_child, next_sibling, last_child and count of p all tell of the list s.
Spells(n, p, s) ==
  /\ Chain(n, n[p].first, s)
  /\ n[p].count = Len(s)
  /\ s # << >> => n[p].last = s[Len(s)]

\* No node stands at two places of the lists.
OnePlace(K) ==
  \A p, q \in Id : \A i \in 1 .. Len(K[p]), j \in 1 .. Len(K[q]) :
    K[p][i] = K[q][j] => p = q /\ i = j

Sound(n, L, K) ==
  /\ K \in [Id -> Seq(L)]
  /\ \A p \in Id \ L : K[p] = << >>
  /\ \A p \in L : Spells(n, p, K[p])
  /\ OnePlace(K)

-----------------------------------------------------------------------------
(* Links.                                                                  *)

\* dom_link appends child to parent's chain; the child's own next_sibling
\* is left as it was.  With count = 0 the stale last_child is not read.
dom_link(n, parent, child) ==
  LET linked == IF n[parent].count = 0
                THEN [n EXCEPT ![parent].first = child]
                ELSE [n EXCEPT ![n[parent].last].next = child]
  IN  [linked EXCEPT ![parent].last = child, ![parent].count = (@ + 1) % Wrap32]

\* mut_link: the link, the attached bit and the child's own depth.  The
\* child's descendants keep the depths they had.
mut_link(n, parent, child) ==
  [dom_link(n, parent, child) EXCEPT
     ![child].att = TRUE, ![child].depth = (n[parent].depth + 1) % Wrap16]

\* yep_mut_set_depths: depth d at v, one more per level below it.
yep_mut_set_depths(n, v, d) ==
  [i \in Id |->
     LET levels == {j \in 0 .. MaxNodes : i \in Level(n, v, j)}
     IN  IF levels = {} THEN n[i]
         ELSE [n[i] EXCEPT !.depth = (d + CHOOSE j \in levels : TRUE) % Wrap16]]

\* Mutant: the attached bit is not asked.
Attached_BoundsOnly(n, nc, child) == child >= nc

\* Mutant: the parent's own level is not counted.
TooDeep_OffByOne(n, parent, child) == n[parent].depth + mut_height(n, child) > MaxDepth

\* mut_attach_ok's three outcomes.
Attached(n, nc, child) == child >= nc \/ n[child].att
TooDeep(n, parent, child) == n[parent].depth + 1 + mut_height(n, child) > MaxDepth
mut_attach_ok(n, nc, parent, child) ==
  ~Attached(n, nc, child) /\ ~TooDeep(n, parent, child)

-----------------------------------------------------------------------------
(* Mappings: keys sit at the even hops of the chain, values at the odd.    *)

\* map_find: the first key whose text equals key.  Every kind of key node is
\* compared, and a collection's text is the empty view.
map_find(n, m, key) ==
  LET s == ChildSeq(n, m)
      hits == {i \in DOMAIN s : i % 2 = 1 /\ n[s[i]].value = key}
  IN  IF hits = {} THEN NIL ELSE s[CHOOSE i \in hits : \A j \in hits : i <= j]

\* The entries at the even hops of s that are in the set some.
KeysAmong(s, some) ==
  LET keys == [i \in 1 .. ((Len(s) + 1) \div 2) |-> s[2 * i - 1]]
  IN  SelectSeq(keys, LAMBDA k : k \in some)

\* The scalar keys in chain order: what tab_build inserts, and what the scan
\* of yeptris_node_map_get compares.
ScalarKeys(n, m) ==
  LET s == ChildSeq(n, m)
  IN  KeysAmong(s, {k \in Elems(s) : n[k].kind = "scalar"})

\* Probing the table of keys tab: linear probing without deletion returns
\* the first inserted key of equal text.
Probe(n, tab, key) ==
  LET hits == {i \in 1 .. Len(tab) : n[tab[i]].value = key}
  IN  IF hits = {} THEN NIL ELSE tab[CHOOSE i \in hits : \A j \in hits : i <= j]

-----------------------------------------------------------------------------
(* Unlinking and replacing.                                                *)

\* The nodes whose successor is child on parent's chain (the walk to prev).
Prevs(n, parent, child) == {c \in Children(n, parent) : n[c].next = child}
Prev(n, parent, child) == CHOOSE c \in Prevs(n, parent, child) : TRUE

\* unlink_child fails on an empty chain or a child that is not on it.
CanUnlink(n, parent, child) ==
  /\ child # NIL
  /\ n[parent].first # NIL
  /\ n[parent].first = child \/ Prevs(n, parent, child) # {}

\* Mutant: last_child is not moved back.
unlink_child_StaleLast(n, parent, child) ==
  LET cut == IF n[parent].first = child THEN [n EXCEPT ![parent].first = n[child].next]
             ELSE [n EXCEPT ![Prev(n, parent, child)].next = n[child].next]
  IN  [cut EXCEPT ![parent].count = (@ - 1) % Wrap32,
                  ![child].next = NIL, ![child].att = FALSE]

unlink_child(n, parent, child) ==
  LET prev == Prev(n, parent, child)
      isFirst == n[parent].first = child
      cut == IF isFirst THEN [n EXCEPT ![parent].first = n[child].next]
             ELSE [n EXCEPT ![prev].next = n[child].next]
  IN  [cut EXCEPT ![parent].last = IF @ # child THEN @ ELSE IF isFirst THEN NIL ELSE prev,
                  ![parent].count = (@ - 1) % Wrap32,
                  ![child].next = NIL, ![child].att = FALSE]

\* yep_mut_seq_set's splice: value takes cur's place, cur is detached with
\* its sibling link cleared, the whole subtree of value is re-depthed.
seq_splice(n, seq, cur, value) ==
  LET prev == Prev(n, seq, cur)
      cut == IF n[seq].first = cur THEN [n EXCEPT ![seq].first = value]
             ELSE [n EXCEPT ![prev].next = value]
      moved == [cut EXCEPT ![seq].last = IF @ = cur THEN value ELSE @,
                           ![value].next = n[cur].next, ![value].att = TRUE,
                           ![cur].next = NIL, ![cur].att = FALSE]
  IN  yep_mut_set_depths(moved, value, n[seq].depth + 1)

\* yep_mut_map_set's replacement of the value after key k: the old value is
\* detached but keeps its sibling link, and the new subtree is re-depthed
\* from the key's depth.
map_splice(n, m, k, value) ==
  LET old == n[k].next
      moved == [n EXCEPT ![old].att = FALSE, ![value].next = n[old].next,
                         ![k].next = value,
                         ![m].last = IF @ = old THEN value ELSE @,
                         ![value].att = TRUE]
  IN  yep_mut_set_depths(moved, value, n[k].depth + 1)
=============================================================================

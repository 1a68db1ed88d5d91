---------------------------- MODULE OrderedTree -----------------------------
(***************************************************************************)
(* What the document tree promises its host (include/yeptris/dom.h, "Nodes *)
(* belong to exactly one parent (or one document root)"): a forest of      *)
(* ordered child lists.  A step makes nodes, edits ONE child list with     *)
(* nodes that are free, or declares a free node a root.  DomTree, where    *)
(* the lists are chains of sibling links, is checked to implement it.      *)
(***************************************************************************)
EXTENDS Integers, Sequences

CONSTANT Node       \* the nodes a document can hold

VARIABLES
  live,       \* the nodes created so far
  kids,       \* kids[p] is the ordered child list of p
  roots       \* the document roots, in order

vars == <<live, kids, roots>>

Elems(s) == {s[i] : i \in DOMAIN s}
Distinct(s) == \A i, j \in DOMAIN s : s[i] = s[j] => i = j

\* A free node is live, in no child list and no root.
Free(c) ==
  /\ c \in live
  /\ \A p \in Node : c \notin Elems(kids[p])
  /\ c \notin Elems(roots)

Init ==
  /\ live \in SUBSET Node
  /\ kids \in [Node -> Seq(live)]
  /\ roots \in Seq(live)
  /\ \A p \in Node : Distinct(kids[p]) /\ (p \notin live => kids[p] = << >>)
  /\ \A p, q \in Node : p # q => Elems(kids[p]) \intersect Elems(kids[q]) = {}
  /\ Distinct(roots)
  /\ \A p \in Node : Elems(kids[p]) \intersect Elems(roots) = {}

Create ==
  /\ live' \in SUBSET Node /\ live \subseteq live'
  /\ UNCHANGED <<kids, roots>>

\* A list changes at one place: after the first a children, drop of them go
\* and put newcomers, free or created by this very step, come.  All others
\* keep their order.  Newcomers without a removal come at the end; a
\* replacement is one for one, so the new child has the old one's position.
Splice(old, new) ==
  \E a \in 0 .. Len(old), drop, put \in 0 .. 2 :
    /\ a + drop <= Len(old)
    /\ drop = 0 => a = Len(old)
    /\ drop = 0 \/ put = 0 \/ (drop = 1 /\ put = 1)
    /\ Len(new) = Len(old) - drop + put
    /\ \A i \in 1 .. a : new[i] = old[i]
    /\ \A i \in (a + drop + 1) .. Len(old) : new[i - drop + put] = old[i]
    /\ \A i \in (a + 1) .. (a + put) :
         /\ Free(new[i]) \/ new[i] \notin live
         /\ \A j \in (a + 1) .. (a + put) : new[i] = new[j] => i = j

\* One child list is spliced.
Edit(p) ==
  /\ p \in live
  /\ \E old \in {kids[p]}, new \in {kids'[p]} :
       /\ new # old
       /\ kids' = [kids EXCEPT ![p] = new]
       /\ new \in Seq(live')
       /\ Splice(old, new)
  /\ live' \in SUBSET Node /\ live \subseteq live'
  /\ UNCHANGED roots

Root(r) ==
  /\ Free(r)
  /\ roots' = Append(roots, r)
  /\ UNCHANGED <<live, kids>>

Next ==
  \/ Create
  \/ \E p \in Node : Edit(p)
  \/ \E r \in Node : Root(r)

Spec == Init /\ [][Next]_vars

-----------------------------------------------------------------------------
\* Child lists hold live nodes only.
TypeOK ==
  /\ live \in SUBSET Node
  /\ kids \in [Node -> Seq(live)]
  /\ roots \in Seq(live)

\* Every node belongs to at most one place of one parent, or is one root
\* (include/yeptris/dom.h:94, mutate.c:7 "one parent per node").
OneParent ==
  /\ \A p, q \in Node : p # q => Elems(kids[p]) \intersect Elems(kids[q]) = {}
  /\ \A p \in Node : Distinct(kids[p])
  /\ \A p \in Node : Elems(kids[p]) \intersect Elems(roots) = {}
  /\ Distinct(roots)
=============================================================================

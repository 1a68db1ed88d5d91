-------------------------- MODULE OrderedTreeProofs -------------------------
(***************************************************************************)
(* One parent per node, for every set of nodes and every history of edits. *)
(***************************************************************************)
EXTENDS OrderedTree, TLAPS

\* The invariant that is inductive: nodes in lists are live, so that a node
\* created by the step is in no list yet.
Inv == TypeOK /\ OneParent

\* An empty document (yeptris_document_new) satisfies the invariant.
LEMMA InitInv == Init => Inv
  BY DEF Init, Inv, TypeOK, OneParent

\* Where the entries of the edited list come from.
LEMMA EditEntries ==
  ASSUME Inv, NEW p \in Node, Edit(p), NEW c \in Elems(kids'[p])
  PROVE  c \in Elems(kids[p]) \/ Free(c) \/ c \notin live
  <1> DEFINE old == kids[p]
             new == kids'[p]
  <1>0. Splice(old, new)
    BY DEF Edit
  <1>1. PICK a \in 0 .. Len(old), drop \in 0 .. 2, put \in 0 .. 2 :
          /\ a + drop <= Len(old)
          /\ Len(new) = Len(old) - drop + put
          /\ \A i \in 1 .. a : new[i] = old[i]
          /\ \A i \in (a + drop + 1) .. Len(old) : new[i - drop + put] = old[i]
          /\ \A i \in (a + 1) .. (a + put) : Free(new[i]) \/ new[i] \notin live
    BY <1>0 DEF Splice
  <1>2. old \in Seq(live) /\ new \in Seq(live')
    BY DEF Inv, TypeOK, Edit
  <1> HIDE DEF old, new
  <1>3. DOMAIN old = 1 .. Len(old) /\ DOMAIN new = 1 .. Len(new) /\ Len(old) \in Nat
    BY <1>2
  <1>4. PICK i \in 1 .. Len(new) : c = new[i]
    BY <1>3 DEF Elems, new
  <1>5. CASE i <= a
    BY <1>1, <1>3, <1>4, <1>5 DEF Elems, old
  <1>6. CASE i > a /\ i <= a + put
    BY <1>1, <1>4, <1>6
  <1>7. CASE i > a + put
    <2> DEFINE j == i - put + drop
    <2>1. j \in (a + drop + 1) .. Len(old) /\ i = j - drop + put
      BY <1>1, <1>3, <1>7
    <2>2. new[i] = old[j]
      BY <1>1, <2>1
    <2>3. j \in DOMAIN old
      BY <1>1, <1>3, <2>1
    <2> HIDE DEF j
    <2>4. c \in Elems(old)
      BY <1>4, <2>2, <2>3 DEF Elems
    <2> QED
      BY <2>4 DEF old
  <1> QED
    BY <1>1, <1>3, <1>4, <1>5, <1>6, <1>7

\* The edited list has no entry twice.
LEMMA EditDistinct ==
  ASSUME Inv, NEW p \in Node, Edit(p)
  PROVE  Distinct(kids'[p])
  <1> DEFINE old == kids[p]
             new == kids'[p]
  <1>0. Splice(old, new)
    BY DEF Edit
  <1>1. PICK a \in 0 .. Len(old), drop \in 0 .. 2, put \in 0 .. 2 :
          /\ a + drop <= Len(old)
          /\ Len(new) = Len(old) - drop + put
          /\ \A i \in 1 .. a : new[i] = old[i]
          /\ \A i \in (a + drop + 1) .. Len(old) : new[i - drop + put] = old[i]
          /\ \A i \in (a + 1) .. (a + put) :
               /\ Free(new[i]) \/ new[i] \notin live
               /\ \A j \in (a + 1) .. (a + put) : new[i] = new[j] => i = j
    BY <1>0 DEF Splice
  <1>2. old \in Seq(live) /\ new \in Seq(live') /\ Distinct(old)
    BY DEF Inv, TypeOK, OneParent, Edit
  <1>3. \A x \in Elems(old) : x \in live /\ ~Free(x)
    BY <1>2 DEF Free, Elems
  <1> HIDE DEF old, new
  <1>4. DOMAIN old = 1 .. Len(old) /\ DOMAIN new = 1 .. Len(new) /\ Len(old) \in Nat
    BY <1>2
  \* Where position i of the new list stood in the old one.
  <1> DEFINE src(i) == IF i <= a THEN i ELSE i - put + drop
             Kept(i) == i <= a \/ i > a + put
  <1>5. ASSUME NEW i \in 1 .. Len(new), Kept(i)
        PROVE  src(i) \in 1 .. Len(old) /\ new[i] = old[src(i)]
    <2>1. CASE i <= a
      BY <1>1, <1>4, <2>1
    <2>2. CASE i > a + put
      <3>1. src(i) \in (a + drop + 1) .. Len(old) /\ i = src(i) - drop + put
        BY <1>1, <1>4, <2>2
      <3> HIDE DEF src
      <3>2. new[src(i) - drop + put] = old[src(i)]
        BY <1>1, <3>1
      <3> QED
        BY <1>1, <1>4, <3>1, <3>2
    <2> QED
      BY <1>5, <2>1, <2>2
  <1>6. ASSUME NEW i \in 1 .. Len(new), Kept(i)
        PROVE  new[i] \in Elems(old)
    BY <1>4, <1>5, <1>6 DEF Elems
  <1>7. ASSUME NEW i \in 1 .. Len(new), ~Kept(i)
        PROVE  i \in (a + 1) .. (a + put) /\ new[i] \notin Elems(old)
    <2>1. i \in (a + 1) .. (a + put)
      BY <1>1, <1>4, <1>7
    <2> QED
      BY <1>1, <1>3, <2>1
  <1>8. ASSUME NEW i \in 1 .. Len(new), NEW j \in 1 .. Len(new), new[i] = new[j]
        PROVE  i = j
    <2>1. CASE Kept(i) /\ Kept(j)
      <3>1. old[src(i)] = old[src(j)]
        BY <1>5, <1>8, <2>1
      <3>2. src(i) = src(j)
        BY <1>2, <1>4, <1>5, <2>1, <3>1 DEF Distinct
      <3> QED
        BY <1>1, <1>4, <2>1, <3>2
    <2>2. CASE ~Kept(i) /\ ~Kept(j)
      BY <1>1, <1>7, <1>8, <2>2
    <2>3. CASE Kept(i) /\ ~Kept(j)
      BY <1>6, <1>7, <1>8, <2>3
    <2>4. CASE ~Kept(i) /\ Kept(j)
      BY <1>6, <1>7, <1>8, <2>4
    <2> HIDE DEF Kept
    <2> QED
      BY <2>1, <2>2, <2>3, <2>4
  <1> QED
    BY <1>4, <1>8 DEF Distinct, new

\* Creating a node, splicing a child list and adding a root keep it.
LEMMA NextInv == Inv /\ [Next]_vars => Inv'
  <1> SUFFICES ASSUME Inv, [Next]_vars PROVE Inv'
    OBVIOUS
  <1>1. ASSUME live \subseteq live', live' \in SUBSET Node PROVE Seq(live) \subseteq Seq(live')
    BY <1>1
  <1>2. CASE Create
    <2>1. TypeOK'
      BY <1>1, <1>2 DEF Create, Inv, TypeOK
    <2>2. kids' = kids /\ roots' = roots
      BY <1>2 DEF Create
    <2>3. OneParent'
      BY <2>2 DEF Inv, OneParent, Elems, Distinct
    <2> QED
      BY <2>1, <2>3 DEF Inv
  <1>3. ASSUME NEW p \in Node, Edit(p) PROVE Inv'
    <2>1. /\ live \subseteq live' /\ live' \in SUBSET Node /\ roots' = roots
          /\ kids' = [kids EXCEPT ![p] = kids'[p]] /\ kids'[p] \in Seq(live')
      BY <1>3 DEF Edit
    <2>2. \A q \in Node : q # p => kids'[q] = kids[q]
      BY <2>1 DEF Inv, TypeOK
    <2>3. TypeOK'
      BY <1>1, <2>1, <2>2 DEF Inv, TypeOK
    <2>4. \A q \in Node : Distinct(kids'[q])
      BY <1>3, <2>2, EditDistinct DEF Inv, OneParent
    <2>5. \A q \in Node : q # p => Elems(kids'[p]) \intersect Elems(kids[q]) = {}
      <3> SUFFICES ASSUME NEW q \in Node, q # p, NEW c \in Elems(kids'[p]), c \in Elems(kids[q])
                   PROVE  FALSE
        OBVIOUS
      <3>1. c \in live
        BY DEF Inv, TypeOK, Elems
      <3>2. c \notin Elems(kids[p])
        BY DEF Inv, OneParent
      <3>3. ~Free(c)
        BY DEF Free
      <3> QED
        BY <1>3, <3>1, <3>2, <3>3, EditEntries
    <2>6. Elems(kids'[p]) \intersect Elems(roots) = {}
      <3> SUFFICES ASSUME NEW c \in Elems(kids'[p]), c \in Elems(roots) PROVE FALSE
        OBVIOUS
      <3>1. c \in live
        BY DEF Inv, TypeOK, Elems
      <3>2. c \notin Elems(kids[p])
        BY DEF Inv, OneParent
      <3>3. ~Free(c)
        BY DEF Free
      <3> QED
        BY <1>3, <3>1, <3>2, <3>3, EditEntries
    <2>7. \A q, r \in Node : q # r => Elems(kids'[q]) \intersect Elems(kids'[r]) = {}
      BY <2>2, <2>5 DEF Inv, OneParent
    <2>8. \A q \in Node : Elems(kids'[q]) \intersect Elems(roots') = {}
      BY <2>1, <2>2, <2>6 DEF Inv, OneParent
    <2>9. Distinct(roots')
      BY <2>1 DEF Inv, OneParent
    <2>10. OneParent'
      BY <2>4, <2>7, <2>8, <2>9 DEF OneParent, Elems, Distinct
    <2> QED
      BY <2>3, <2>10 DEF Inv
  <1>4. ASSUME NEW r \in Node, Root(r) PROVE Inv'
    <2>1. r \in live /\ roots \in Seq(live) /\ roots' = Append(roots, r)
      BY <1>4 DEF Root, Free, Inv, TypeOK
    <2>2. TypeOK'
      BY <1>4, <2>1 DEF Root, Inv, TypeOK
    <2>3. r \notin Elems(roots) /\ \A p \in Node : r \notin Elems(kids[p])
      BY <1>4 DEF Root, Free
    <2>4. Distinct(roots')
      BY <2>1, <2>3 DEF Inv, OneParent, Distinct, Elems
    <2>5. Elems(roots') = Elems(roots) \union {r}
      BY <2>1 DEF Elems
    <2>6. kids' = kids
      BY <1>4 DEF Root
    <2>7. \A p \in Node : Elems(kids'[p]) \intersect Elems(roots') = {}
      BY <2>3, <2>5, <2>6 DEF Inv, OneParent
    <2>8. /\ \A p, q \in Node : p # q => Elems(kids'[p]) \intersect Elems(kids'[q]) = {}
          /\ \A p \in Node : Distinct(kids'[p])
      BY <2>6 DEF Inv, OneParent
    <2>9. OneParent'
      BY <2>4, <2>7, <2>8 DEF OneParent, Elems, Distinct
    <2> QED
      BY <2>2, <2>9 DEF Inv
  <1>5. CASE UNCHANGED vars
    <2>1. kids' = kids /\ roots' = roots /\ live' = live
      BY <1>5 DEF vars
    <2>2. TypeOK'
      BY <2>1 DEF Inv, TypeOK
    <2>3. OneParent'
      BY <2>1 DEF Inv, OneParent, Elems, Distinct
    <2> QED
      BY <2>2, <2>3 DEF Inv
  <1> QED
    BY <1>2, <1>3, <1>4, <1>5 DEF Next

\* A document that changes only by these edits never has a node with two
\* parents, two places under one parent, or a parent and a root entry
\* (include/yeptris/dom.h:94), for any number of nodes.
THEOREM OneParentAlways == Spec => []OneParent
  <1>1. Spec => []Inv
    BY InitInv, NextInv, PTL DEF Spec
  <1>2. Inv => OneParent
    BY DEF Inv
  <1> QED
    BY <1>1, <1>2, PTL
=============================================================================

---------------------------- MODULE DomTreeProofs ---------------------------
(***************************************************************************)
(* DomTree for every arena size, depth cap, text set and starting          *)
(* document.  Whatever the host does and whatever the chains look like, no *)
(* call makes a link that leaves the arena, a counter that leaves its      *)
(* width, or a root outside the arena (TypeCorrect).  For a careful host   *)
(* that begins with a whole document the document stays whole, from which  *)
(* follow the refinement of OrderedTree, one parent per node, sound chains *)
(* and, if no child of the collection indexed last is replaced, coherent   *)
(* caches.  If that host attaches only nodes without children, no tree     *)
(* nests past the cap.                                                     *)
(*                                                                         *)
(* The argument: a call changes the arena by primitives of DomNodes, and   *)
(* the first part says what each does to the lists that the links spell    *)
(* out: a walk of a sound chain returns its list, dom_link appends to one  *)
(* list, unlink_child removes from one and the two splices replace in one, *)
(* and no other list is touched.  (ChildSeq is a recursive function, so    *)
(* its value is reached by induction, with the lemmas of NatRecursion.)    *)
(* Here that is carried to roots, attached bits and pairs (LinkKeeps and   *)
(* the like), each call is shown to edit one list or none (Edited,         *)
(* Unedited), and such a step is shown to be one of OrderedTree.  The cap  *)
(* holds since the recorded depths grow from parent to child (LevelInv).   *)
(***************************************************************************)
EXTENDS DomTree, NatRecursion, FiniteSetTheorems, TLAPS

-----------------------------------------------------------------------------
(* Every primitive maps arenas to arenas, whatever the chains look like.   *)

USE MaxNodesAssumption, MaxDepthAssumption, Wrap32Assumption, Wrap16Assumption

\* A fresh cell is a node.
LEMMA FreshType ==
  ASSUME NEW kind \in Kinds, NEW text \in Text
  PROVE  Fresh(kind, text) \in DNode
  BY TextAssumption DEF Fresh, Kinds, DNode, Link, U32, U16, NIL, Id

\* Writing one field of one cell, with a value of the field's type, keeps the
\* arena well typed.
LEMMA FieldTypes ==
  ASSUME NEW n \in [Id -> DNode], NEW i
  PROVE  /\ \A l \in Link : [n EXCEPT ![i].first = l] \in [Id -> DNode]
         /\ \A l \in Link : [n EXCEPT ![i].last = l] \in [Id -> DNode]
         /\ \A l \in Link : [n EXCEPT ![i].next = l] \in [Id -> DNode]
         /\ \A c \in U32 : [n EXCEPT ![i].count = c] \in [Id -> DNode]
         /\ \A b \in BOOLEAN : [n EXCEPT ![i].att = b] \in [Id -> DNode]
         /\ \A d \in U16 : [n EXCEPT ![i].depth = d] \in [Id -> DNode]
  <1>1. \A l \in Link : [n EXCEPT ![i].first = l] \in [Id -> DNode]
    BY DEF DNode
  <1>2. \A l \in Link : [n EXCEPT ![i].last = l] \in [Id -> DNode]
    BY DEF DNode
  <1>3. \A l \in Link : [n EXCEPT ![i].next = l] \in [Id -> DNode]
    BY DEF DNode
  <1>4. \A c \in U32 : [n EXCEPT ![i].count = c] \in [Id -> DNode]
    BY DEF DNode
  <1>5. \A b \in BOOLEAN : [n EXCEPT ![i].att = b] \in [Id -> DNode]
    BY DEF DNode
  <1>6. \A d \in U16 : [n EXCEPT ![i].depth = d] \in [Id -> DNode]
    BY DEF DNode
  <1> QED
    BY <1>1, <1>2, <1>3, <1>4, <1>5, <1>6

\* dom_link keeps every cell a node, whatever last_child holds.
LEMMA LinkType ==
  ASSUME NEW n \in [Id -> DNode], NEW p \in Id, NEW c \in Id
  PROVE  dom_link(n, p, c) \in [Id -> DNode]
  <1>1. c \in Link
    BY DEF Link
  <1>2. ASSUME NEW l \in [Id -> DNode]
        PROVE  [l EXCEPT ![p].last = c, ![p].count = (@ + 1) % Wrap32] \in [Id -> DNode]
    <2> DEFINE k == [l EXCEPT ![p].last = c]
    <2>1. (l[p].count + 1) % Wrap32 \in U32
      BY DEF DNode, U32
    <2>2. k \in [Id -> DNode]
      BY <1>1, FieldTypes
    <2>3. k[p].count = l[p].count
      BY DEF DNode
    <2>4. [k EXCEPT ![p].count = (l[p].count + 1) % Wrap32] \in [Id -> DNode]
      BY <2>1, <2>2, FieldTypes
    <2>5. [l EXCEPT ![p].last = c, ![p].count = (@ + 1) % Wrap32]
            = [k EXCEPT ![p].count = (l[p].count + 1) % Wrap32]
      BY <2>3
    <2> QED
      BY <2>4, <2>5
  <1> QED
    BY <1>1, <1>2, FieldTypes DEF dom_link

\* mut_link adds the attached bit and a depth of its width.
LEMMA MutLinkType ==
  ASSUME NEW n \in [Id -> DNode], NEW p \in Id, NEW c \in Id
  PROVE  mut_link(n, p, c) \in [Id -> DNode]
  <1> DEFINE l == dom_link(n, p, c)
             dep == (n[p].depth + 1) % Wrap16
             k == [l EXCEPT ![c].att = TRUE]
  <1>1. l \in [Id -> DNode]
    BY LinkType
  <1>2. dep \in U16
    BY DEF DNode, U16
  <1> HIDE DEF l, dep
  <1>3. k \in [Id -> DNode]
    BY <1>1, FieldTypes
  <1>4. [k EXCEPT ![c].depth = dep] \in [Id -> DNode]
    BY <1>2, <1>3, FieldTypes
  <1>5. [l EXCEPT ![c].att = TRUE, ![c].depth = dep] = [k EXCEPT ![c].depth = dep]
    OBVIOUS
  <1> QED
    BY <1>4, <1>5 DEF mut_link, l, dep

\* yep_mut_set_depths only rewrites depths, within their width.
LEMMA SetDepthsType ==
  ASSUME NEW n \in [Id -> DNode], NEW v, NEW d \in Nat
  PROVE  yep_mut_set_depths(n, v, d) \in [Id -> DNode]
  <1> DEFINE levels(i) == {j \in 0 .. MaxNodes : i \in Level(n, v, j)}
             dep(i) == (d + CHOOSE j \in levels(i) : TRUE) % Wrap16
  <1>1. ASSUME NEW i \in Id, levels(i) # {}
        PROVE  [n[i] EXCEPT !.depth = dep(i)] \in DNode
    <2>1. (CHOOSE j \in levels(i) : TRUE) \in 0 .. MaxNodes
      BY <1>1
    <2>2. dep(i) \in U16
      BY <2>1 DEF U16
    <2> QED
      BY <2>2 DEF DNode
  <1> QED
    BY <1>1 DEF yep_mut_set_depths

\* unlink_child, when it does not fail, finds its predecessor in the arena.
LEMMA UnlinkType ==
  ASSUME NEW n \in [Id -> DNode], NEW p \in Id, NEW c \in Id, CanUnlink(n, p, c)
  PROVE  unlink_child(n, p, c) \in [Id -> DNode]
  <1> DEFINE prev == Prev(n, p, c)
             isFirst == n[p].first = c
             cut == IF isFirst THEN [n EXCEPT ![p].first = n[c].next]
                    ELSE [n EXCEPT ![prev].next = n[c].next]
             nl == IF cut[p].last # c THEN cut[p].last ELSE IF isFirst THEN NIL ELSE prev
             cnt == (cut[p].count - 1) % Wrap32
             k1 == [cut EXCEPT ![p].last = nl]
             k2 == [k1 EXCEPT ![p].count = cnt]
             k3 == [k2 EXCEPT ![c].next = NIL]
             k4 == [k3 EXCEPT ![c].att = FALSE]
  <1>1. ~isFirst => prev \in Id
    BY DEF CanUnlink, Prev, Prevs, Children
  <1>2. n[c].next \in Link
    BY DEF DNode
  <1>3. cut \in [Id -> DNode]
    BY <1>2, FieldTypes
  <1> HIDE DEF cut
  <1>4. nl \in Link
    BY <1>1, <1>3 DEF Link, DNode
  <1>5. cnt \in U32
    BY <1>3 DEF DNode, U32
  <1> HIDE DEF nl, cnt
  <1>6. k1 \in [Id -> DNode]
    BY <1>3, <1>4, FieldTypes
  <1>7. k2 \in [Id -> DNode]
    BY <1>5, <1>6, FieldTypes
  <1>8. k3 \in [Id -> DNode]
    BY <1>7, FieldTypes DEF Link
  <1>9. k4 \in [Id -> DNode]
    BY <1>8, FieldTypes
  <1>10. unlink_child(n, p, c) = k4
    <2>1. unlink_child(n, p, c)
            = [cut EXCEPT ![p].last = IF @ # c THEN @ ELSE IF isFirst THEN NIL ELSE prev,
                          ![p].count = (@ - 1) % Wrap32, ![c].next = NIL, ![c].att = FALSE]
      BY Zenon DEF unlink_child, cut
    <2>2. k1[p].count = cut[p].count
      BY <1>3 DEF DNode
    <2> QED
      BY <2>1, <2>2 DEF nl, cnt
  <1> QED
    BY <1>9, <1>10

\* yep_mut_seq_set's splice.
LEMMA SeqSpliceType ==
  ASSUME NEW n \in [Id -> DNode], NEW s \in Id, NEW cur \in Id, NEW v \in Id
  PROVE  seq_splice(n, s, cur, v) \in [Id -> DNode]
  <1> DEFINE prev == Prev(n, s, cur)
             cut == IF n[s].first = cur THEN [n EXCEPT ![s].first = v]
                    ELSE [n EXCEPT ![prev].next = v]
             nl == IF cut[s].last = cur THEN v ELSE cut[s].last
             nx == n[cur].next
             k1 == [cut EXCEPT ![s].last = nl]
             k2 == [k1 EXCEPT ![v].next = nx]
             k3 == [k2 EXCEPT ![v].att = TRUE]
             k4 == [k3 EXCEPT ![cur].next = NIL]
             k5 == [k4 EXCEPT ![cur].att = FALSE]
  <1>1. v \in Link /\ nx \in Link /\ NIL \in Link
    BY DEF Link, DNode
  <1>2. cut \in [Id -> DNode]
    BY <1>1, FieldTypes
  <1> HIDE DEF cut
  <1>3. nl \in Link
    BY <1>1, <1>2 DEF DNode
  <1> HIDE DEF nl, nx
  <1>4. k1 \in [Id -> DNode]
    BY <1>2, <1>3, FieldTypes
  <1>5. k2 \in [Id -> DNode]
    BY <1>1, <1>4, FieldTypes
  <1>6. k3 \in [Id -> DNode]
    BY <1>5, FieldTypes
  <1>7. k4 \in [Id -> DNode]
    BY <1>1, <1>6, FieldTypes
  <1>8. k5 \in [Id -> DNode]
    BY <1>7, FieldTypes
  <1>9. n[s].depth + 1 \in Nat
    BY DEF DNode, U16
  <1>10. seq_splice(n, s, cur, v) = yep_mut_set_depths(k5, v, n[s].depth + 1)
    BY DEF seq_splice, cut, nl, nx
  <1> HIDE DEF k5
  <1> QED
    BY <1>8, <1>9, <1>10, SetDepthsType

\* yep_mut_map_set's replacement.
LEMMA MapSpliceType ==
  ASSUME NEW n \in [Id -> DNode], NEW m \in Id, NEW k \in Id, NEW v \in Id,
         n[k].next # NIL
  PROVE  map_splice(n, m, k, v) \in [Id -> DNode]
  <1> DEFINE old == n[k].next
             nx == n[old].next
             k1 == [n EXCEPT ![old].att = FALSE]
             k2 == [k1 EXCEPT ![v].next = nx]
             k3 == [k2 EXCEPT ![k].next = v]
             nl == IF n[m].last = old THEN v ELSE n[m].last
             k4 == [k3 EXCEPT ![m].last = nl]
             k5 == [k4 EXCEPT ![v].att = TRUE]
  <1>1. v \in Link /\ old \in Id /\ nx \in Link
    BY DEF Link, DNode
  <1>2. k1 \in [Id -> DNode]
    BY FieldTypes
  <1> HIDE DEF nx
  <1>3. k2 \in [Id -> DNode]
    BY <1>1, <1>2, FieldTypes
  <1>4. k3 \in [Id -> DNode]
    BY <1>1, <1>3, FieldTypes
  <1> HIDE DEF k3
  <1>5. nl \in Link
    BY <1>1 DEF DNode
  <1> HIDE DEF nl
  <1>6. k4 \in [Id -> DNode]
    BY <1>4, <1>5, FieldTypes
  <1>7. k5 \in [Id -> DNode]
    BY <1>6, FieldTypes
  <1>8. n[k].depth + 1 \in Nat
    BY DEF DNode, U16
  <1>9. map_splice(n, m, k, v) = yep_mut_set_depths(k5, v, n[k].depth + 1)
    BY DEF map_splice, nx, nl, k3
  <1> HIDE DEF k5
  <1> QED
    BY <1>7, <1>8, <1>9, SetDepthsType

-----------------------------------------------------------------------------
(* Walking a chain.                                                        *)


\* The walk inside ChildSeq, by itself.
Walk(n) ==
  CHOOSE walk : walk = [hops \in Nat |->
    [x \in Link |-> IF x = NIL \/ hops = 0 THEN << >>
                    ELSE <<x>> \o walk[hops - 1][n[x].next]]]

\* ChildSeq walks from the first child.
LEMMA ChildSeqIs ==
  ASSUME NEW n, NEW p
  PROVE  ChildSeq(n, p) = Walk(n)[MaxNodes + 1][n[p].first]
  BY DEF ChildSeq, Walk

\* The walk exists: it satisfies its recursion equation.
LEMMA WalkIs ==
  ASSUME NEW n, \A x \in Id : n[x].next \in Link
  PROVE  \A h \in Nat, x \in Link :
           Walk(n)[h][x] = IF x = NIL \/ h = 0 THEN << >> ELSE <<x>> \o Walk(n)[h - 1][n[x].next]
  <1> DEFINE S == [Link -> Seq(Link)]
             a == [x \in Link |-> << >>]
             step(F) == [x \in Link |-> IF x = NIL THEN << >> ELSE <<x>> \o F[n[x].next]]
             g == [F \in S |-> step(F)]
  <1>1. a \in S
    OBVIOUS
  <1>2. g \in [S -> S]
    <2>1. ASSUME NEW F \in S PROVE step(F) \in S
      <3>1. ASSUME NEW x \in Link, x # NIL PROVE <<x>> \o F[n[x].next] \in Seq(Link)
        <4>1. F[n[x].next] \in Seq(Link) /\ <<x>> \in Seq(Link)
          BY <3>1 DEF Link
        <4> QED
          BY <4>1
      <3> QED
        BY <3>1
    <2> HIDE DEF S
    <2> QED
      BY <2>1
  <1>3. PICK f \in [Nat -> S] : f[0] = a /\ \A k \in Nat : f[k + 1] = g[f[k]]
    <2> HIDE DEF S, a, g
    <2> QED
      BY <1>1, <1>2, Iterate
  <1>4. ASSUME NEW h \in Nat
        PROVE  f[h] = [x \in Link |-> IF x = NIL \/ h = 0 THEN << >> ELSE <<x>> \o f[h - 1][n[x].next]]
    <2>2. CASE h = 0
      BY <1>3, <2>2
    <2>3. CASE h # 0
      <3>1. h - 1 \in Nat /\ h = (h - 1) + 1
        BY <2>3
      <3>2. f[h] = g[f[h - 1]] /\ f[h - 1] \in S
        BY <1>3, <3>1
      <3>3. f[h] = step(f[h - 1])
        BY <3>2
      <3> QED
        BY <2>3, <3>3
    <2> QED
      BY <2>2, <2>3
  <1>5. f = [hops \in Nat |->
              [x \in Link |-> IF x = NIL \/ hops = 0 THEN << >> ELSE <<x>> \o f[hops - 1][n[x].next]]]
    BY <1>3, <1>4
  <1>6. Walk(n) = [hops \in Nat |->
          [x \in Link |-> IF x = NIL \/ hops = 0 THEN << >> ELSE <<x>> \o Walk(n)[hops - 1][n[x].next]]]
    BY <1>5 DEF Walk
  <1>7. ASSUME NEW h \in Nat, NEW x \in Link
        PROVE  Walk(n)[h][x] = IF x = NIL \/ h = 0 THEN << >> ELSE <<x>> \o Walk(n)[h - 1][n[x].next]
    <2> DEFINE body(k) == [y \in Link |-> IF y = NIL \/ k = 0 THEN << >> ELSE <<y>> \o Walk(n)[k - 1][n[y].next]]
    <2>1. Walk(n) = [k \in Nat |-> body(k)]
      BY <1>6
    <2>2. body(h)[x] = IF x = NIL \/ h = 0 THEN << >> ELSE <<x>> \o Walk(n)[h - 1][n[x].next]
      OBVIOUS
    <2> HIDE DEF body
    <2>3. Walk(n)[h] = body(h)
      BY <2>1
    <2> QED
      BY <2>2, <2>3
  <1> QED
    BY <1>7

NoRepeat(s) == \A i, j \in 1 .. Len(s) : s[i] = s[j] => i = j

\* A list in which no node stands twice is no longer than the arena.
LEMMA DistinctShort ==
  ASSUME NEW s \in Seq(Id), NoRepeat(s)
  PROVE  Len(s) <= MaxNodes
  <1>1. s \in Injection(1 .. Len(s), Id)
    <2>1. s \in [1 .. Len(s) -> Id] /\ DOMAIN s = 1 .. Len(s)
      OBVIOUS
    <2>2. IsInjective(s)
      BY <2>1 DEF IsInjective, NoRepeat
    <2> QED
      BY <2>1, <2>2, Zenon DEF Injection
  <1>2. IsFiniteSet(Id) /\ Cardinality(Id) = MaxNodes
    BY FS_Interval DEF Id
  <1>3. Cardinality(1 .. Len(s)) <= Cardinality(Id)
    BY <1>1, <1>2, FS_Injection
  <1>4. Cardinality(1 .. Len(s)) = Len(s)
    <2>1. Len(s) \in Nat
      OBVIOUS
    <2>2. Cardinality(1 .. Len(s)) = IF 1 > Len(s) THEN 0 ELSE Len(s) - 1 + 1
      BY <2>1, FS_Interval
    <2> QED
      BY <2>1, <2>2
  <1> QED
    BY <1>2, <1>3, <1>4

\* Walking a chain that ends within the hops allowed visits its list.
LEMMA WalkChain ==
  ASSUME NEW n \in [Id -> DNode]
  PROVE  \A h \in Nat, x \in Link, s \in Seq(Id) :
           Chain(n, x, s) /\ Len(s) <= h => Walk(n)[h][x] = s
  <1> DEFINE T == {h \in Nat : \A x \in Link, s \in Seq(Id) :
                     Chain(n, x, s) /\ Len(s) <= h => Walk(n)[h][x] = s}
  <1>0. \A x \in Id : n[x].next \in Link
    BY DEF DNode
  <1>1. ASSUME NEW x \in Link, NEW s \in Seq(Id), Chain(n, x, s), x = NIL
        PROVE  s = << >>
    <2>1. ~(0 < Len(s))
      BY <1>1 DEF Chain, After, Id, NIL
    <2> QED
      BY <2>1
  <1>2. 0 \in T
    <2>1. ASSUME NEW x \in Link, NEW s \in Seq(Id), Chain(n, x, s), Len(s) <= 0
          PROVE  Walk(n)[0][x] = s
      <3>1. s = << >>
        BY <2>1
      <3>2. Walk(n)[0][x] = << >>
        BY <1>0, WalkIs
      <3> QED
        BY <3>1, <3>2
    <2> QED
      BY <2>1
  <1>3. ASSUME NEW h \in Nat, h \in T PROVE h + 1 \in T
    <2>1. ASSUME NEW x \in Link, NEW s \in Seq(Id), Chain(n, x, s), Len(s) <= h + 1
          PROVE  Walk(n)[h + 1][x] = s
      <3>1. Walk(n)[h + 1][x] = IF x = NIL THEN << >> ELSE <<x>> \o Walk(n)[h][n[x].next]
        <4> DEFINE k == h + 1
        <4>1. k \in Nat /\ k # 0 /\ k - 1 = h
          OBVIOUS
        <4> HIDE DEF k
        <4>2. Walk(n)[k][x] = IF x = NIL \/ k = 0 THEN << >>
                              ELSE <<x>> \o Walk(n)[k - 1][n[x].next]
          BY <1>0, <4>1, WalkIs, Zenon
        <4> QED
          BY <4>1, <4>2 DEF k
      <3>2. CASE x = NIL
        BY <1>1, <2>1, <3>1, <3>2
      <3>3. CASE x # NIL
        <4>1. x \in Id /\ n[x].next \in Link
          BY <1>0, <3>3 DEF Link
        <4>2. Len(s) > 0 /\ x = s[1]
          BY <2>1, <3>3 DEF Chain, After
        <4> DEFINE t == Tail(s)
        <4>3. t \in Seq(Id) /\ Len(t) = Len(s) - 1 /\ \A i \in 1 .. Len(t) : t[i] = s[i + 1]
          BY <4>2
        <4>4. s = <<x>> \o t
          BY <4>2, <4>3
        <4> HIDE DEF t
        <4>5. Chain(n, n[x].next, t)
          <5>1. n[x].next = After(t, 0)
            <6>1. n[x].next = After(s, 1)
              BY <2>1, <4>2 DEF Chain
            <6>2. After(s, 1) = After(t, 0)
              BY <4>2, <4>3 DEF After
            <6> QED
              BY <6>1, <6>2
          <5>2. ASSUME NEW i \in 1 .. Len(t) PROVE n[t[i]].next = After(t, i)
            BY <2>1, <4>2, <4>3 DEF Chain, After
          <5> QED
            BY <5>1, <5>2 DEF Chain
        <4>6. Walk(n)[h][n[x].next] = t
          BY <1>3, <2>1, <4>1, <4>3, <4>5
        <4> QED
          BY <3>1, <3>3, <4>4, <4>6
      <3> QED
        BY <3>2, <3>3
    <2> QED
      BY <2>1
  <1>4. Nat \subseteq T
    <2> HIDE DEF T
    <2> QED
      BY <1>2, <1>3, SetInduction
  <1> QED
    BY <1>4

\* k is a list of nodes of L, and the links of p spell it.
ListOf(n, L, p, k) ==
  /\ k \in Seq(L) /\ k \in Seq(Id)
  /\ Len(k) \in Nat /\ Len(k) <= MaxNodes
  /\ Spells(n, p, k)
  /\ NoRepeat(k)

\* What sound links say of one list.
LEMMA SoundList ==
  ASSUME NEW n \in [Id -> DNode], NEW L \in SUBSET Id, NEW K, Sound(n, L, K), NEW p \in L
  PROVE  ListOf(n, L, p, K[p])
  <1>1. p \in Id /\ K[p] \in Seq(L) /\ K[p] \in Seq(Id)
    BY DEF Sound
  <1>2. Spells(n, p, K[p])
    BY DEF Sound
  <1>3. NoRepeat(K[p])
    BY <1>1 DEF Sound, OnePlace, NoRepeat
  <1>4. Len(K[p]) <= MaxNodes /\ Len(K[p]) \in Nat
    BY <1>1, <1>3, DistinctShort
  <1> QED
    BY <1>1, <1>2, <1>3, <1>4 DEF ListOf

\* Every walk of sound links finds the list.
LEMMA SoundWalk ==
  ASSUME NEW n \in [Id -> DNode], NEW L \in SUBSET Id, NEW K, Sound(n, L, K), NEW p \in L
  PROVE  ChildSeq(n, p) = K[p]
  <1>1. ListOf(n, L, p, K[p])
    BY SoundList
  <1>2. p \in Id /\ n[p].first \in Link
    BY DEF DNode
  <1>3. Walk(n)[MaxNodes + 1][n[p].first] = K[p]
    BY <1>1, <1>2, WalkChain DEF Spells, ListOf
  <1> QED
    BY <1>3, ChildSeqIs

-----------------------------------------------------------------------------
(* What each primitive writes, field by field.                             *)

\* N is n after the link of c under p.
Linked(n, N, p, c) ==
  \A x \in Id :
    /\ N[x].first = IF x = p /\ n[p].count = 0 THEN c ELSE n[x].first
    /\ N[x].last = IF x = p THEN c ELSE n[x].last
    /\ N[x].count = IF x = p THEN (n[x].count + 1) % Wrap32 ELSE n[x].count
    /\ N[x].next = IF x = n[p].last /\ n[p].count # 0 THEN c ELSE n[x].next
    /\ x = c => N[x].att = TRUE
    /\ x # c => N[x].att = n[x].att
    /\ N[x].kind = n[x].kind
    /\ N[x].value = n[x].value

\* N is n after c was unlinked from p, where it followed prev.
Unlinked(n, N, p, c, prev) ==
  \A x \in Id :
    /\ N[x].first = IF x = p /\ n[x].first = c THEN n[c].next ELSE n[x].first
    /\ N[x].last = IF x = p /\ n[x].last = c THEN IF n[p].first = c THEN NIL ELSE prev
                   ELSE n[x].last
    /\ N[x].count = IF x = p THEN (n[x].count - 1) % Wrap32 ELSE n[x].count
    /\ N[x].next = IF x = c THEN NIL
                   ELSE IF x = prev /\ n[p].first # c THEN n[c].next ELSE n[x].next
    /\ x = c => N[x].att = FALSE
    /\ x # c => N[x].att = n[x].att
    /\ N[x].kind = n[x].kind
    /\ N[x].value = n[x].value

\* N is n after v took the place of old under p, where old followed prev; old
\* is left with the link to end.
Replaced(n, N, p, prev, old, v, end) ==
  \A x \in Id :
    /\ N[x].first = IF x = p /\ n[x].first = old THEN v ELSE n[x].first
    /\ N[x].last = IF x = p /\ n[x].last = old THEN v ELSE n[x].last
    /\ N[x].count = n[x].count
    /\ N[x].next = IF x = old THEN end ELSE IF x = v THEN n[old].next
                   ELSE IF x = prev /\ n[p].first # old THEN v ELSE n[x].next
    /\ x = v => N[x].att = TRUE
    /\ x = old => N[x].att = FALSE
    /\ x # v /\ x # old => N[x].att = n[x].att
    /\ N[x].kind = n[x].kind
    /\ N[x].value = n[x].value

\* mut_link writes the parent's ends and count, the former last child's link,
\* and the child's attached bit and depth.
LEMMA LinkFields ==
  ASSUME NEW n \in [Id -> DNode], NEW p \in Id, NEW c \in Id
  PROVE  Linked(n, mut_link(n, p, c), p, c)
  <1> SUFFICES ASSUME NEW x \in Id
        PROVE  /\ mut_link(n, p, c)[x].first = IF x = p /\ n[p].count = 0 THEN c ELSE n[x].first
               /\ mut_link(n, p, c)[x].last = IF x = p THEN c ELSE n[x].last
               /\ mut_link(n, p, c)[x].count = IF x = p THEN (n[x].count + 1) % Wrap32 ELSE n[x].count
               /\ mut_link(n, p, c)[x].next
                    = IF x = n[p].last /\ n[p].count # 0 THEN c ELSE n[x].next
               /\ x = c => mut_link(n, p, c)[x].att = TRUE
               /\ x # c => mut_link(n, p, c)[x].att = n[x].att
               /\ mut_link(n, p, c)[x].kind = n[x].kind
               /\ mut_link(n, p, c)[x].value = n[x].value
    BY DEF Linked
  <1> DEFINE linked == IF n[p].count = 0 THEN [n EXCEPT ![p].first = c]
                       ELSE [n EXCEPT ![n[p].last].next = c]
             dep == (n[p].depth + 1) % Wrap16
             l == dom_link(n, p, c)
  <1>1. \A y \in Id : n[y] \in DNode
    OBVIOUS
  <1>2. linked \in [Id -> DNode]
    BY FieldTypes DEF Link
  <1>3. /\ linked[x].first = IF x = p /\ n[p].count = 0 THEN c ELSE n[x].first
        /\ linked[x].last = n[x].last /\ linked[x].count = n[x].count
        /\ linked[x].next = IF x = n[p].last /\ n[p].count # 0 THEN c ELSE n[x].next
        /\ linked[x].att = n[x].att /\ linked[x].kind = n[x].kind
        /\ linked[x].value = n[x].value
    BY <1>1 DEF DNode
  <1>4. l = [linked EXCEPT ![p].last = c, ![p].count = (@ + 1) % Wrap32]
    BY DEF dom_link
  <1> HIDE DEF linked
  <1>5. /\ l[x].first = linked[x].first
        /\ l[x].last = IF x = p THEN c ELSE linked[x].last
        /\ l[x].count = IF x = p THEN (linked[x].count + 1) % Wrap32 ELSE linked[x].count
        /\ l[x].next = linked[x].next /\ l[x].att = linked[x].att
        /\ l[x].kind = linked[x].kind /\ l[x].value = linked[x].value
    BY <1>2, <1>4 DEF DNode
  <1>6. l \in [Id -> DNode]
    BY LinkType
  <1>7. mut_link(n, p, c) = [l EXCEPT ![c].att = TRUE, ![c].depth = dep]
    BY DEF mut_link
  <1> HIDE DEF l, dep
  <1>8. /\ mut_link(n, p, c)[x].first = l[x].first
        /\ mut_link(n, p, c)[x].last = l[x].last
        /\ mut_link(n, p, c)[x].count = l[x].count
        /\ mut_link(n, p, c)[x].next = l[x].next
        /\ x = c => mut_link(n, p, c)[x].att = TRUE
        /\ x # c => mut_link(n, p, c)[x].att = l[x].att
        /\ mut_link(n, p, c)[x].kind = l[x].kind
        /\ mut_link(n, p, c)[x].value = l[x].value
    <2>1. l[x] \in DNode
      BY <1>6
    <2>2. CASE x = c
      <3>1. mut_link(n, p, c)[x] = [l[x] EXCEPT !.att = TRUE, !.depth = dep]
        BY <1>6, <1>7, <2>2
      <3> QED
        BY <2>1, <2>2, <3>1 DEF DNode
    <2>3. CASE x # c
      <3>1. mut_link(n, p, c)[x] = l[x]
        BY <1>6, <1>7, <2>3
      <3> QED
        BY <2>3, <3>1
    <2> QED
      BY <2>2, <2>3
  <1> QED
    BY <1>3, <1>5, <1>8

\* yep_mut_set_depths writes depths only.
LEMMA SetDepthsFields ==
  ASSUME NEW n \in [Id -> DNode], NEW v, NEW d \in Nat, NEW x \in Id
  PROVE  /\ yep_mut_set_depths(n, v, d)[x].first = n[x].first
         /\ yep_mut_set_depths(n, v, d)[x].last = n[x].last
         /\ yep_mut_set_depths(n, v, d)[x].count = n[x].count
         /\ yep_mut_set_depths(n, v, d)[x].next = n[x].next
         /\ yep_mut_set_depths(n, v, d)[x].att = n[x].att
         /\ yep_mut_set_depths(n, v, d)[x].kind = n[x].kind
         /\ yep_mut_set_depths(n, v, d)[x].value = n[x].value
  <1> DEFINE levels == {j \in 0 .. MaxNodes : x \in Level(n, v, j)}
             dep == (d + CHOOSE j \in levels : TRUE) % Wrap16
  <1>1. yep_mut_set_depths(n, v, d)[x]
          = IF levels = {} THEN n[x] ELSE [n[x] EXCEPT !.depth = dep]
    BY DEF yep_mut_set_depths
  <1>2. n[x] \in DNode
    OBVIOUS
  <1> HIDE DEF levels, dep
  <1> QED
    BY <1>1, <1>2 DEF DNode

\* unlink_child joins the neighbours of the child, moves the parent's ends and
\* count, and clears the child's link and attached bit.
LEMMA UnlinkFields ==
  ASSUME NEW n \in [Id -> DNode], NEW p \in Id, NEW c \in Id, CanUnlink(n, p, c)
  PROVE  Unlinked(n, unlink_child(n, p, c), p, c, Prev(n, p, c))
  <1> SUFFICES ASSUME NEW x \in Id
        PROVE  /\ unlink_child(n, p, c)[x].first
                    = IF x = p /\ n[x].first = c THEN n[c].next ELSE n[x].first
               /\ unlink_child(n, p, c)[x].last
                    = IF x = p /\ n[x].last = c THEN IF n[p].first = c THEN NIL ELSE Prev(n, p, c)
                      ELSE n[x].last
               /\ unlink_child(n, p, c)[x].count
                    = IF x = p THEN (n[x].count - 1) % Wrap32 ELSE n[x].count
               /\ unlink_child(n, p, c)[x].next
                    = IF x = c THEN NIL
                      ELSE IF x = Prev(n, p, c) /\ n[p].first # c THEN n[c].next ELSE n[x].next
               /\ x = c => unlink_child(n, p, c)[x].att = FALSE
               /\ x # c => unlink_child(n, p, c)[x].att = n[x].att
               /\ unlink_child(n, p, c)[x].kind = n[x].kind
               /\ unlink_child(n, p, c)[x].value = n[x].value
    BY DEF Unlinked
  <1> DEFINE prev == Prev(n, p, c)
             isFirst == n[p].first = c
             cut == IF isFirst THEN [n EXCEPT ![p].first = n[c].next]
                    ELSE [n EXCEPT ![prev].next = n[c].next]
             nl == IF cut[p].last # c THEN cut[p].last ELSE IF isFirst THEN NIL ELSE prev
             cnt == (cut[p].count - 1) % Wrap32
             k == [cut EXCEPT ![p].last = nl]
             k2 == [k EXCEPT ![p].count = cnt]
             k3 == [k2 EXCEPT ![c].next = NIL, ![c].att = FALSE]
  <1>0. n[c].next \in Link /\ NIL \in Link
    BY DEF DNode, Link
  <1>1. cut \in [Id -> DNode]
    BY <1>0, FieldTypes
  <1>2. /\ cut[x].first = IF x = p /\ n[x].first = c THEN n[c].next ELSE n[x].first
        /\ cut[x].next = IF x = prev /\ n[p].first # c THEN n[c].next ELSE n[x].next
        /\ cut[x].last = n[x].last /\ cut[x].count = n[x].count
        /\ cut[x].att = n[x].att /\ cut[x].kind = n[x].kind /\ cut[x].value = n[x].value
    BY DEF DNode
  <1>3. cut[p].last = n[p].last /\ cut[p].count = n[p].count
    BY DEF DNode
  <1>4. unlink_child(n, p, c)
          = [cut EXCEPT ![p].last = IF @ # c THEN @ ELSE IF isFirst THEN NIL ELSE prev,
                        ![p].count = (@ - 1) % Wrap32, ![c].next = NIL, ![c].att = FALSE]
    BY Zenon DEF unlink_child, cut
  <1> HIDE DEF cut
  <1>5. k[p].count = cut[p].count
    BY <1>1 DEF DNode
  <1>6. unlink_child(n, p, c) = k3
    BY <1>4, <1>5
  <1> HIDE DEF nl, cnt
  <1>7. /\ k3[x].first = cut[x].first /\ k3[x].kind = cut[x].kind
        /\ k3[x].value = cut[x].value
        /\ k3[x].last = IF x = p THEN nl ELSE cut[x].last
        /\ k3[x].count = IF x = p THEN cnt ELSE cut[x].count
        /\ k3[x].next = IF x = c THEN NIL ELSE cut[x].next
        /\ x = c => k3[x].att = FALSE
        /\ x # c => k3[x].att = cut[x].att
    <2>1. /\ k3[x].first = cut[x].first /\ k3[x].kind = cut[x].kind
          /\ k3[x].value = cut[x].value
      BY <1>1 DEF DNode
    <2>2. k3[x].last = IF x = p THEN nl ELSE cut[x].last
      BY <1>1 DEF DNode
    <2>3. k3[x].count = IF x = p THEN cnt ELSE cut[x].count
      BY <1>1 DEF DNode
    <2>4. k3[x].next = IF x = c THEN NIL ELSE cut[x].next
      BY <1>1 DEF DNode
    <2>5. (x = c => k3[x].att = FALSE) /\ (x # c => k3[x].att = cut[x].att)
      BY <1>1 DEF DNode
    <2> HIDE DEF k3
    <2> QED
      BY <2>1, <2>2, <2>3, <2>4, <2>5
  <1>8. nl = (IF n[p].last # c THEN n[p].last ELSE IF isFirst THEN NIL ELSE prev)
        /\ cnt = (n[p].count - 1) % Wrap32
    BY <1>3 DEF nl, cnt
  <1> QED
    BY <1>2, <1>6, <1>7, <1>8

\* yep_mut_seq_set puts value where cur was and clears cur's link.
LEMMA SeqSpliceFields ==
  ASSUME NEW n \in [Id -> DNode], NEW s \in Id, NEW cur \in Id, NEW v \in Id, v # cur
  PROVE  Replaced(n, seq_splice(n, s, cur, v), s, Prev(n, s, cur), cur, v, NIL)
  <1> SUFFICES ASSUME NEW x \in Id
        PROVE  /\ seq_splice(n, s, cur, v)[x].first
                    = IF x = s /\ n[x].first = cur THEN v ELSE n[x].first
               /\ seq_splice(n, s, cur, v)[x].last
                    = IF x = s /\ n[x].last = cur THEN v ELSE n[x].last
               /\ seq_splice(n, s, cur, v)[x].count = n[x].count
               /\ seq_splice(n, s, cur, v)[x].next
                    = IF x = cur THEN NIL ELSE IF x = v THEN n[cur].next
                      ELSE IF x = Prev(n, s, cur) /\ n[s].first # cur THEN v ELSE n[x].next
               /\ x = v => seq_splice(n, s, cur, v)[x].att = TRUE
               /\ x = cur => seq_splice(n, s, cur, v)[x].att = FALSE
               /\ x # v /\ x # cur => seq_splice(n, s, cur, v)[x].att = n[x].att
               /\ seq_splice(n, s, cur, v)[x].kind = n[x].kind
               /\ seq_splice(n, s, cur, v)[x].value = n[x].value
    BY DEF Replaced
  <1> DEFINE prev == Prev(n, s, cur)
             cut == IF n[s].first = cur THEN [n EXCEPT ![s].first = v]
                    ELSE [n EXCEPT ![prev].next = v]
             nl == IF cut[s].last = cur THEN v ELSE cut[s].last
             nx == n[cur].next
             k1 == [cut EXCEPT ![s].last = nl]
             k2 == [k1 EXCEPT ![v].next = nx]
             k3 == [k2 EXCEPT ![v].att = TRUE]
             k4 == [k3 EXCEPT ![cur].next = NIL]
             k5 == [k4 EXCEPT ![cur].att = FALSE]
             d == n[s].depth + 1
  <1>1. v \in Link /\ nx \in Link /\ NIL \in Link /\ d \in Nat
    BY DEF Link, DNode, U16
  <1>2. cut \in [Id -> DNode]
    BY <1>1, FieldTypes
  <1>3. /\ cut[x].first = IF x = s /\ n[x].first = cur THEN v ELSE n[x].first
        /\ cut[x].next = IF x = prev /\ n[s].first # cur THEN v ELSE n[x].next
        /\ cut[x].last = n[x].last /\ cut[x].count = n[x].count
        /\ cut[x].att = n[x].att /\ cut[x].kind = n[x].kind /\ cut[x].value = n[x].value
    BY DEF DNode
  <1>4. cut[s].last = n[s].last
    BY DEF DNode
  <1>5. seq_splice(n, s, cur, v) = yep_mut_set_depths(k5, v, d)
    BY DEF seq_splice
  <1> HIDE DEF cut
  <1>6. nl \in Link /\ nl = IF n[s].last = cur THEN v ELSE n[s].last
    BY <1>1, <1>2, <1>4 DEF DNode
  <1> HIDE DEF nl, nx, d
  <1>7. k1 \in [Id -> DNode]
    BY <1>2, <1>6, FieldTypes
  <1>8. k2 \in [Id -> DNode]
    BY <1>1, <1>7, FieldTypes
  <1>9. k3 \in [Id -> DNode]
    BY <1>8, FieldTypes
  <1>10. k4 \in [Id -> DNode]
    BY <1>1, <1>9, FieldTypes
  <1>11. k5 \in [Id -> DNode]
    BY <1>10, FieldTypes
  <1>12. /\ k2[x].first = cut[x].first /\ k2[x].count = cut[x].count
         /\ k2[x].kind = cut[x].kind /\ k2[x].value = cut[x].value
         /\ k2[x].att = cut[x].att
         /\ k2[x].last = IF x = s THEN nl ELSE cut[x].last
         /\ k2[x].next = IF x = v THEN nx ELSE cut[x].next
    BY <1>2 DEF DNode
  <1> HIDE DEF k2
  <1>13. /\ k5[x].first = k2[x].first /\ k5[x].count = k2[x].count
         /\ k5[x].kind = k2[x].kind /\ k5[x].value = k2[x].value
         /\ k5[x].last = k2[x].last
         /\ k5[x].next = IF x = cur THEN NIL ELSE k2[x].next
    BY <1>8 DEF DNode
  <1>14. /\ x = v => k5[x].att = TRUE
         /\ x = cur => k5[x].att = FALSE
         /\ x # v /\ x # cur => k5[x].att = k2[x].att
    <2>0. k2[x] \in DNode
      BY <1>8
    <2>1. CASE x = v
      <3>1. k5[x] = [k2[x] EXCEPT !.att = TRUE]
        BY <1>8, <2>1
      <3> QED
        BY <2>0, <2>1, <3>1 DEF DNode
    <2>2. CASE x = cur
      <3>1. k5[x] = [k2[x] EXCEPT !.next = NIL, !.att = FALSE]
        BY <1>8, <2>2
      <3> QED
        BY <2>0, <2>2, <3>1 DEF DNode
    <2>3. CASE x # v /\ x # cur
      <3>1. k5[x] = k2[x]
        BY <1>8, <2>3
      <3> QED
        BY <2>3, <3>1
    <2> QED
      BY <2>1, <2>2, <2>3
  <1> HIDE DEF k5
  <1>15. /\ seq_splice(n, s, cur, v)[x].first = k5[x].first
         /\ seq_splice(n, s, cur, v)[x].last = k5[x].last
         /\ seq_splice(n, s, cur, v)[x].count = k5[x].count
         /\ seq_splice(n, s, cur, v)[x].next = k5[x].next
         /\ seq_splice(n, s, cur, v)[x].att = k5[x].att
         /\ seq_splice(n, s, cur, v)[x].kind = k5[x].kind
         /\ seq_splice(n, s, cur, v)[x].value = k5[x].value
    BY <1>1, <1>5, <1>11, SetDepthsFields
  <1>16. /\ seq_splice(n, s, cur, v)[x].first
              = IF x = s /\ n[x].first = cur THEN v ELSE n[x].first
         /\ seq_splice(n, s, cur, v)[x].last
              = IF x = s /\ n[x].last = cur THEN v ELSE n[x].last
         /\ seq_splice(n, s, cur, v)[x].count = n[x].count
         /\ seq_splice(n, s, cur, v)[x].next
              = IF x = cur THEN NIL ELSE IF x = v THEN n[cur].next
                ELSE IF x = Prev(n, s, cur) /\ n[s].first # cur THEN v ELSE n[x].next
    BY <1>3, <1>6, <1>12, <1>13, <1>15 DEF nx
  <1> QED
    BY <1>3, <1>12, <1>13, <1>14, <1>15, <1>16, Zenon

\* yep_mut_map_set puts value after key k and leaves the old value's link.
LEMMA MapSpliceFields ==
  ASSUME NEW n \in [Id -> DNode], NEW m \in Id, NEW k \in Id, NEW v \in Id, NEW old \in Id,
         old = n[k].next, n[m].first # old, v # old, v # k, k # old
  PROVE  Replaced(n, map_splice(n, m, k, v), m, k, old, v, n[old].next)
  <1> SUFFICES ASSUME NEW x \in Id
        PROVE  /\ map_splice(n, m, k, v)[x].first
                    = IF x = m /\ n[x].first = old THEN v ELSE n[x].first
               /\ map_splice(n, m, k, v)[x].last
                    = IF x = m /\ n[x].last = old THEN v ELSE n[x].last
               /\ map_splice(n, m, k, v)[x].count = n[x].count
               /\ map_splice(n, m, k, v)[x].next
                    = IF x = old THEN n[old].next ELSE IF x = v THEN n[old].next
                      ELSE IF x = k /\ n[m].first # old THEN v ELSE n[x].next
               /\ x = v => map_splice(n, m, k, v)[x].att = TRUE
               /\ x = old => map_splice(n, m, k, v)[x].att = FALSE
               /\ x # v /\ x # old => map_splice(n, m, k, v)[x].att = n[x].att
               /\ map_splice(n, m, k, v)[x].kind = n[x].kind
               /\ map_splice(n, m, k, v)[x].value = n[x].value
    BY DEF Replaced
  <1> DEFINE nx == n[old].next
             nl == IF n[m].last = old THEN v ELSE n[m].last
             k1 == [n EXCEPT ![old].att = FALSE]
             k2 == [k1 EXCEPT ![v].next = nx]
             k3 == [k2 EXCEPT ![k].next = v]
             k4 == [k3 EXCEPT ![m].last = nl]
             k5 == [k4 EXCEPT ![v].att = TRUE]
             d == n[k].depth + 1
  <1>1. v \in Link /\ nx \in Link /\ nl \in Link /\ d \in Nat
    BY DEF Link, DNode, U16
  <1>2. map_splice(n, m, k, v) = yep_mut_set_depths(k5, v, d)
    BY DEF map_splice
  <1> HIDE DEF nl, nx, d
  <1>3. k1 \in [Id -> DNode]
    BY FieldTypes
  <1>4. k2 \in [Id -> DNode]
    BY <1>1, <1>3, FieldTypes
  <1>5. k3 \in [Id -> DNode]
    BY <1>1, <1>4, FieldTypes
  <1>6. k4 \in [Id -> DNode]
    BY <1>1, <1>5, FieldTypes
  <1>7. k5 \in [Id -> DNode]
    BY <1>6, FieldTypes
  <1>8. /\ k4[x].first = n[x].first /\ k4[x].count = n[x].count
        /\ k4[x].kind = n[x].kind /\ k4[x].value = n[x].value
        /\ k4[x].last = IF x = m THEN nl ELSE n[x].last
        /\ k4[x].next = IF x = k THEN v ELSE IF x = v THEN nx ELSE n[x].next
    BY DEF DNode
  <1>9. /\ x = old => k4[x].att = FALSE
        /\ x # old => k4[x].att = n[x].att
    <2>0. k2[x].att = k1[x].att
      BY <1>3 DEF DNode
    <2>1. k4[x].att = k1[x].att
      <3>1. k3[x].att = k2[x].att
        BY <1>4 DEF DNode
      <3>2. k4[x].att = k3[x].att
        BY <1>5 DEF DNode
      <3> HIDE DEF k1, k2, k3, k4
      <3> QED
        BY <2>0, <3>1, <3>2
    <2>2. CASE x = old
      BY <2>1, <2>2 DEF DNode
    <2>3. CASE x # old
      BY <2>1, <2>3 DEF DNode
    <2> QED
      BY <2>2, <2>3
  <1> HIDE DEF k4
  <1>10. /\ k5[x].first = k4[x].first /\ k5[x].count = k4[x].count
         /\ k5[x].kind = k4[x].kind /\ k5[x].value = k4[x].value
         /\ k5[x].last = k4[x].last /\ k5[x].next = k4[x].next
    BY <1>6 DEF DNode
  <1>11. /\ x = v => k5[x].att = TRUE
         /\ x # v => k5[x].att = k4[x].att
    <2>1. CASE x = v
      BY <1>6, <2>1 DEF DNode
    <2>2. CASE x # v
      BY <1>6, <2>2 DEF DNode
    <2> QED
      BY <2>1, <2>2
  <1> HIDE DEF k5
  <1>12. /\ map_splice(n, m, k, v)[x].first = k5[x].first
         /\ map_splice(n, m, k, v)[x].last = k5[x].last
         /\ map_splice(n, m, k, v)[x].count = k5[x].count
         /\ map_splice(n, m, k, v)[x].next = k5[x].next
         /\ map_splice(n, m, k, v)[x].att = k5[x].att
         /\ map_splice(n, m, k, v)[x].kind = k5[x].kind
         /\ map_splice(n, m, k, v)[x].value = k5[x].value
    BY <1>1, <1>2, <1>7, SetDepthsFields
  <1>13. /\ map_splice(n, m, k, v)[x].last = IF x = m /\ n[x].last = old THEN v ELSE n[x].last
         /\ map_splice(n, m, k, v)[x].next
              = IF x = old THEN n[old].next ELSE IF x = v THEN n[old].next
                ELSE IF x = k /\ n[m].first # old THEN v ELSE n[x].next
         /\ map_splice(n, m, k, v)[x].first
              = IF x = m /\ n[x].first = old THEN v ELSE n[x].first
    BY <1>8, <1>10, <1>12 DEF nx, nl
  <1> QED
    BY <1>8, <1>9, <1>10, <1>11, <1>12, <1>13, Zenon

-----------------------------------------------------------------------------
(* Edits of one list.                                                      *)

\* Links that spell out a new list for p, made of nodes that stand in no other
\* list, and that leave the other lists alone, are sound again.
LEMMA EditSound ==
  ASSUME NEW n \in [Id -> DNode], NEW L \in SUBSET Id, NEW K, Sound(n, L, K),
         NEW N, NEW p \in L, NEW s \in Seq(L), Spells(N, p, s),
         \A q \in L \ {p} : /\ N[q].first = n[q].first /\ N[q].last = n[q].last
                            /\ N[q].count = n[q].count,
         \A q \in L \ {p} : \A i \in 1 .. Len(K[q]) : N[K[q][i]].next = n[K[q][i]].next,
         NoRepeat(s),
         \A q \in L \ {p} : \A i \in 1 .. Len(s), j \in 1 .. Len(K[q]) : s[i] # K[q][j]
  PROVE  Sound(N, L, [K EXCEPT ![p] = s])
  <1> DEFINE J == [K EXCEPT ![p] = s]
  <1>1. K \in [Id -> Seq(L)] /\ p \in Id
    BY DEF Sound
  <1>2. J \in [Id -> Seq(L)] /\ J[p] = s /\ \A q \in Id \ {p} : J[q] = K[q]
    BY <1>1
  <1> HIDE DEF J
  <1>3. \A q \in Id \ L : J[q] = << >>
    BY <1>2 DEF Sound
  <1>4. ASSUME NEW q \in L PROVE Spells(N, q, J[q])
    <2>1. CASE q = p
      BY <1>2, <2>1
    <2>2. CASE q # p
      <3>1. J[q] = K[q] /\ Spells(n, q, K[q])
        BY <1>2, <2>2 DEF Sound
      <3> QED
        BY <2>2, <3>1 DEF Spells, Chain
    <2> QED
      BY <2>1, <2>2
  <1>5. ASSUME NEW q \in Id, NEW r \in Id, NEW i \in 1 .. Len(J[q]), NEW j \in 1 .. Len(J[r]),
               J[q][i] = J[r][j]
        PROVE  q = r /\ i = j
    <2>0. ASSUME NEW y \in Id, y \notin L PROVE 1 .. Len(J[y]) = {}
      <3>1. J[y] = << >>
        BY <1>3, <2>0
      <3> QED
        BY <3>1
    <2>1. q \in L /\ r \in L
      BY <1>5, <2>0
    <2>2. CASE q = p /\ r = p
      BY <1>2, <1>5, <2>2 DEF NoRepeat
    <2>3. CASE q = p /\ r # p
      BY <1>2, <1>5, <2>1, <2>3
    <2>4. CASE q # p /\ r = p
      <3>1. J[q] = K[q] /\ J[r] = s /\ q \in L \ {p}
        BY <1>2, <2>1, <2>4
      <3>2. s[j] # K[q][i]
        BY <3>1
      <3> QED
        BY <1>5, <3>1, <3>2
    <2>5. CASE q # p /\ r # p
      <3>1. J[q] = K[q] /\ J[r] = K[r]
        BY <1>2, <2>5
      <3>2. i \in 1 .. Len(K[q]) /\ j \in 1 .. Len(K[r]) /\ K[q][i] = K[r][j]
        BY <1>5, <3>1
      <3>3. OnePlace(K)
        BY DEF Sound
      <3> QED
        BY <3>2, <3>3 DEF OnePlace
    <2> QED
      BY <2>2, <2>3, <2>4, <2>5
  <1> QED
    BY <1>2, <1>3, <1>4, <1>5 DEF Sound, OnePlace, J

\* c stands in no list.
Loose(K, c) == \A p \in Id : \A i \in 1 .. Len(K[p]) : K[p][i] # c

Within(L, K) == \A q \in L : \A j \in 1 .. Len(K[q]) : K[q][j] \in L

Apart(L, K, p) ==
  \A i \in 1 .. Len(K[p]) : \A q \in L \ {p} : \A j \in 1 .. Len(K[q]) : K[q][j] # K[p][i]

\* A node of one list stands in no other.
LEMMA Elsewhere ==
  ASSUME NEW n, NEW L \in SUBSET Id, NEW K, Sound(n, L, K), NEW p \in L
  PROVE  Apart(L, K, p) /\ Within(L, K)
  <1>1. K \in [Id -> Seq(L)] /\ p \in Id
    BY DEF Sound
  <1>2. ASSUME NEW i \in 1 .. Len(K[p]), NEW q \in L, q # p, NEW j \in 1 .. Len(K[q]), K[q][j] = K[p][i]
        PROVE  FALSE
    <2>1. q \in Id
      OBVIOUS
    <2> QED
      BY <1>1, <1>2, <2>1 DEF Sound, OnePlace
  <1> QED
    BY <1>1, <1>2 DEF Apart, Within

\* mut_link appends a node that stands nowhere and has no sibling link.
LEMMA LinkSound ==
  ASSUME NEW n \in [Id -> DNode], NEW L \in SUBSET Id, NEW K, Sound(n, L, K),
         NEW p \in L, NEW c \in L, Loose(K, c), n[c].next = NIL
  PROVE  Sound(mut_link(n, p, c), L, [K EXCEPT ![p] = Append(K[p], c)])
  <1> DEFINE N == mut_link(n, p, c)
             k == K[p]
             s == Append(K[p], c)
  <1>0. p \in Id /\ c \in Id
    OBVIOUS
  <1>f. Linked(n, N, p, c)
    BY <1>0, LinkFields
  <1> HIDE DEF N
  <1>a. \A x \in Id : N[x].first = IF x = p /\ n[p].count = 0 THEN c ELSE n[x].first
    BY <1>f DEF Linked
  <1>b. \A x \in Id : N[x].last = IF x = p THEN c ELSE n[x].last
    BY <1>f DEF Linked
  <1>c. \A x \in Id \ {p} : N[x].count = n[x].count
    BY <1>f DEF Linked
  <1>d. \A x \in Id : N[x].next = IF x = n[p].last /\ n[p].count # 0 THEN c ELSE n[x].next
    BY <1>f DEF Linked
  <1>e. p \in Id /\ c \in Id /\ N[p].count = (n[p].count + 1) % Wrap32
    BY <1>0, <1>f DEF Linked
  <1>1. /\ k \in Seq(L) /\ k \in Seq(Id) /\ Len(k) \in Nat
        /\ Spells(n, p, k)
        /\ NoRepeat(k)
    <2>1. ListOf(n, L, p, k)
      BY SoundList
    <2> QED
      BY <2>1 DEF ListOf
  <1>2. \A i \in 1 .. Len(k) : k[i] # c
    BY DEF Loose
  <1>w. Apart(L, K, p) /\ Within(L, K)
    BY Elsewhere
  <1>3. \A i \in 1 .. Len(k) : \A q \in L \ {p} : \A j \in 1 .. Len(K[q]) : K[q][j] # k[i]
    BY <1>w DEF Apart
  <1>4. \A q \in L \ {p} : \A j \in 1 .. Len(K[q]) : K[q][j] # c
    BY DEF Loose
  <1>5. \A q \in L : \A j \in 1 .. Len(K[q]) : K[q][j] \in Id
    BY <1>w DEF Within
  <1> HIDE DEF k
  <1>6. /\ s \in Seq(L) /\ Len(s) = Len(k) + 1 /\ s[Len(s)] = c
        /\ \A i \in 1 .. Len(k) : s[i] = k[i]
    BY <1>1 DEF k
  <1> HIDE DEF s
  <1>7. NoRepeat(s)
    <2> SUFFICES ASSUME NEW i \in 1 .. Len(s), NEW j \in 1 .. Len(s), s[i] = s[j] PROVE i = j
      BY DEF NoRepeat
    <2>1. CASE i \in 1 .. Len(k) /\ j \in 1 .. Len(k)
      BY <1>1, <1>6, <2>1 DEF NoRepeat
    <2>2. CASE i \notin 1 .. Len(k) \/ j \notin 1 .. Len(k)
      BY <1>1, <1>2, <1>6, <2>2
    <2> QED
      BY <2>1, <2>2
  <1>8. Len(s) <= MaxNodes
    <2>1. s \in Seq(Id)
      BY <1>6
    <2> QED
      BY <1>7, <2>1, DistinctShort
  <1>9. \A q \in L \ {p} : \A i \in 1 .. Len(s), j \in 1 .. Len(K[q]) : s[i] # K[q][j]
    <2>1. ASSUME NEW q \in L \ {p}, NEW i \in 1 .. Len(s), NEW j \in 1 .. Len(K[q]),
                 s[i] = K[q][j]
          PROVE  FALSE
      <3>1. CASE i = Len(s)
        BY <1>4, <1>6, <2>1, <3>1
      <3>2. CASE i # Len(s)
        <4>1. i \in 1 .. Len(k)
          BY <1>1, <1>6, <3>2
        <4> QED
          BY <1>3, <1>6, <2>1, <4>1
      <3> QED
        BY <3>1, <3>2
    <2> QED
      BY <2>1
  <1>10. \A q \in L \ {p} : N[q].first = n[q].first /\ N[q].last = n[q].last
                              /\ N[q].count = n[q].count
    BY <1>a, <1>b, <1>c
  <1>11. Len(k) # 0 => n[p].last = k[Len(k)] /\ Len(k) \in 1 .. Len(k)
    BY <1>1 DEF Spells
  <1>12. n[p].count = Len(k)
    BY <1>1 DEF Spells
  <1>13. \A q \in L \ {p} : \A i \in 1 .. Len(K[q]) : N[K[q][i]].next = n[K[q][i]].next
    <2>1. ASSUME NEW q \in L \ {p}, NEW i \in 1 .. Len(K[q])
          PROVE  N[K[q][i]].next = n[K[q][i]].next
      <3>1. K[q][i] \in Id
        BY <1>5
      <3>2. Len(k) # 0 => K[q][i] # n[p].last
        BY <1>3, <1>11
      <3> QED
        BY <1>12, <1>d, <3>1, <3>2
    <2> QED
      BY <2>1
  <1>14. Spells(N, p, s)
    <2>1. N[p].first = After(s, 0)
      <3>1. N[p].first = IF n[p].count = 0 THEN c ELSE n[p].first
        BY <1>a, <1>e
      <3>2. n[p].first = After(k, 0)
        BY <1>1 DEF Spells, Chain
      <3> QED
        BY <1>1, <1>6, <1>12, <3>1, <3>2 DEF After
    <2>2. ASSUME NEW i \in 1 .. Len(s) PROVE N[s[i]].next = After(s, i)
      <3>1. CASE i = Len(s)
        <4>1. s[i] = c /\ After(s, i) = NIL
          BY <1>6, <3>1 DEF After
        <4>2. Len(k) # 0 => c # n[p].last
          BY <1>2, <1>11
        <4>3. N[c].next = n[c].next
          BY <1>12, <1>d, <1>e, <4>2
        <4> QED
          BY <4>1, <4>3
      <3>2. CASE i = Len(k)
        <4>1. s[i] = n[p].last /\ After(s, i) = c /\ n[p].count # 0 /\ s[i] \in Id
          BY <1>1, <1>6, <1>11, <1>12, <3>2 DEF After
        <4> QED
          BY <1>d, <4>1
      <3>3. CASE i # Len(s) /\ i # Len(k)
        <4>1. i \in 1 .. Len(k) /\ i < Len(k) /\ i + 1 \in 1 .. Len(k)
          BY <1>1, <1>6, <3>3
        <4>2. s[i] = k[i] /\ s[i + 1] = k[i + 1] /\ k[i] \in Id
          BY <1>1, <1>6, <4>1
        <4>3. k[i] # n[p].last
          BY <1>1, <1>11, <4>1 DEF NoRepeat
        <4>4. N[k[i]].next = n[k[i]].next
          BY <1>d, <4>2, <4>3
        <4>5. n[k[i]].next = k[i + 1]
          BY <1>1, <4>1 DEF Spells, Chain, After
        <4>6. After(s, i) = k[i + 1]
          BY <1>6, <4>1, <4>2 DEF After
        <4> QED
          BY <4>2, <4>4, <4>5, <4>6
      <3> QED
        BY <3>1, <3>2, <3>3
    <2>3. N[p].count = Len(s)
      <3>1. N[p].count = (n[p].count + 1) % Wrap32
        BY <1>e
      <3>2. Len(k) + 1 \in 0 .. (Wrap32 - 1)
        BY <1>1, <1>6, <1>8
      <3>3. (Len(k) + 1) % Wrap32 = Len(k) + 1
        BY <3>2
      <3> QED
        BY <1>6, <1>12, <3>1, <3>3
    <2>4. N[p].last = s[Len(s)]
      BY <1>6, <1>b, <1>e
    <2> QED
      BY <2>1, <2>2, <2>3, <2>4 DEF Spells, Chain
  <1> QED
    BY <1>6, <1>7, <1>9, <1>10, <1>13, <1>14, EditSound DEF N, s

\* The walk to prev finds the entry before the child.
LEMMA PrevIs ==
  ASSUME NEW n \in [Id -> DNode], NEW L \in SUBSET Id, NEW K, Sound(n, L, K),
         NEW p \in L, NEW i \in 1 .. Len(K[p])
  PROVE  /\ CanUnlink(n, p, K[p][i])
         /\ n[p].first = K[p][i] <=> i = 1
         /\ i # 1 => Prev(n, p, K[p][i]) = K[p][i - 1]
  <1> DEFINE k == K[p]
  <1>1. /\ k \in Seq(L) /\ k \in Seq(Id) /\ Len(k) \in Nat
        /\ Spells(n, p, k) /\ NoRepeat(k) /\ ChildSeq(n, p) = k
    <2>1. ListOf(n, L, p, k) /\ ChildSeq(n, p) = k
      BY SoundList, SoundWalk
    <2> QED
      BY <2>1 DEF ListOf
  <1> HIDE DEF k
  <1>2. i \in 1 .. Len(k) /\ \A j \in 1 .. Len(k) : k[j] \in Id /\ k[j] # NIL
    BY <1>1 DEF k, Id, NIL
  <1>3. n[p].first = k[1] /\ 1 \in 1 .. Len(k)
    BY <1>1, <1>2 DEF Spells, Chain, After
  <1>4. n[p].first = k[i] <=> i = 1
    BY <1>1, <1>2, <1>3 DEF NoRepeat
  <1>5. ASSUME i # 1 PROVE Prevs(n, p, k[i]) = {k[i - 1]}
    <2>1. Children(n, p) = {k[j] : j \in 1 .. Len(k)}
      <3>1. DOMAIN k = 1 .. Len(k)
        BY <1>1
      <3> QED
        BY <1>1, <1>2, <3>1 DEF Children, Elems
    <2>2. i - 1 \in 1 .. Len(k)
      BY <1>2, <1>5
    <2>3. n[k[i - 1]].next = k[i]
      <3>1. n[k[i - 1]].next = After(k, i - 1)
        BY <1>1, <2>2 DEF Spells, Chain
      <3> QED
        BY <1>1, <1>2, <2>2, <3>1 DEF After
    <2>4. ASSUME NEW j \in 1 .. Len(k), n[k[j]].next = k[i] PROVE k[j] = k[i - 1]
      <3>1. After(k, j) = k[i]
        BY <1>1, <2>4 DEF Spells, Chain
      <3>2. j < Len(k) /\ k[j + 1] = k[i]
        BY <1>2, <3>1 DEF After
      <3>3. j + 1 \in 1 .. Len(k)
        BY <1>1, <3>2
      <3>4. j + 1 = i
        BY <1>1, <1>2, <3>2, <3>3 DEF NoRepeat
      <3> QED
        BY <3>4
    <2> QED
      BY <2>1, <2>2, <2>3, <2>4 DEF Prevs
  <1>6. i # 1 => Prev(n, p, k[i]) = k[i - 1]
    BY <1>5 DEF Prev
  <1>7. CanUnlink(n, p, k[i])
    BY <1>2, <1>3, <1>4, <1>5 DEF CanUnlink
  <1> QED
    BY <1>4, <1>6, <1>7 DEF k

\* A child that is not the first of its list is not the first_child.
LEMMA NotFirst ==
  ASSUME NEW n \in [Id -> DNode], NEW L \in SUBSET Id, NEW K, Sound(n, L, K),
         NEW p \in L, NEW i \in 1 .. Len(K[p]), i # 1
  PROVE  n[p].first # K[p][i]
  <1> DEFINE k == K[p]
  <1>1. k \in Seq(L) /\ Len(k) \in Nat /\ Spells(n, p, k) /\ NoRepeat(k)
    BY SoundList DEF ListOf
  <1> HIDE DEF k
  <1>2. i \in 1 .. Len(k)
    BY DEF k
  <1>3. n[p].first = k[1] /\ 1 \in 1 .. Len(k)
    BY <1>1, <1>2 DEF Spells, Chain, After
  <1>4. k[1] # k[i]
    BY <1>1, <1>2, <1>3 DEF NoRepeat
  <1> QED
    BY <1>3, <1>4 DEF k

\* The list s with its entry i gone.
Without(s, i) == [j \in 1 .. (Len(s) - 1) |-> IF j < i THEN s[j] ELSE s[j + 1]]

\* What Without leaves.
LEMMA WithoutIs ==
  ASSUME NEW S, NEW s \in Seq(S), NEW i \in 1 .. Len(s)
  PROVE  /\ Without(s, i) \in Seq(S) /\ Len(Without(s, i)) = Len(s) - 1
         /\ \A j \in 1 .. (Len(s) - 1) : Without(s, i)[j] = IF j < i THEN s[j] ELSE s[j + 1]
  <1>1. Len(s) - 1 \in Nat /\ Len(s) \in Nat
    OBVIOUS
  <1>2. \A j \in 1 .. (Len(s) - 1) : (IF j < i THEN s[j] ELSE s[j + 1]) \in S
    BY <1>1
  <1>3. Without(s, i) \in [1 .. (Len(s) - 1) -> S]
    BY <1>2 DEF Without
  <1>4. Without(s, i) \in Seq(S) /\ Len(Without(s, i)) = Len(s) - 1
    BY <1>1, <1>3
  <1>5. \A j \in 1 .. (Len(s) - 1) : Without(s, i)[j] = IF j < i THEN s[j] ELSE s[j + 1]
    BY DEF Without
  <1> QED
    BY <1>4, <1>5

\* unlink_child removes one entry of one list.
LEMMA UnlinkSound ==
  ASSUME NEW n \in [Id -> DNode], NEW L \in SUBSET Id, NEW K, Sound(n, L, K),
         NEW p \in L, NEW i \in 1 .. Len(K[p])
  PROVE  Sound(unlink_child(n, p, K[p][i]), L, [K EXCEPT ![p] = Without(K[p], i)])
  <1> DEFINE k == K[p]
             c == K[p][i]
             prev == Prev(n, p, c)
             N == unlink_child(n, p, c)
             s == Without(K[p], i)
  <1>1. /\ k \in Seq(L) /\ k \in Seq(Id) /\ Len(k) \in Nat /\ Len(k) <= MaxNodes
        /\ Spells(n, p, k) /\ NoRepeat(k)
    <2>1. ListOf(n, L, p, k)
      BY SoundList
    <2> QED
      BY <2>1 DEF ListOf
  <1>2. p \in Id /\ c \in Id
    BY <1>1
  <1>3. CanUnlink(n, p, c) /\ (n[p].first = c <=> i = 1) /\ (i # 1 => prev = k[i - 1])
    BY PrevIs
  <1>4. Unlinked(n, N, p, c, prev)
    BY <1>2, <1>3, UnlinkFields
  <1>w. Apart(L, K, p) /\ Within(L, K)
    BY Elsewhere
  <1>5. \A j \in 1 .. Len(k) : \A q \in L \ {p} : \A l \in 1 .. Len(K[q]) : K[q][l] # k[j]
    BY <1>w DEF Apart
  <1>6. \A q \in L : \A j \in 1 .. Len(K[q]) : K[q][j] \in Id
    BY <1>w DEF Within
  <1>7. /\ s \in Seq(L) /\ Len(s) = Len(k) - 1
        /\ \A j \in 1 .. (Len(k) - 1) : s[j] = IF j < i THEN k[j] ELSE k[j + 1]
    BY <1>1, WithoutIs
  <1>8. c = k[i] /\ i \in 1 .. Len(k)
    OBVIOUS
  <1> HIDE DEF k, s, N, prev, c
  <1>9. NoRepeat(s)
    <2> SUFFICES ASSUME NEW j \in 1 .. Len(s), NEW l \in 1 .. Len(s), s[j] = s[l] PROVE j = l
      BY DEF NoRepeat
    <2> DEFINE f(y) == IF y < i THEN y ELSE y + 1
    <2>1. f(j) \in 1 .. Len(k) /\ f(l) \in 1 .. Len(k) /\ k[f(j)] = k[f(l)]
      BY <1>1, <1>7
    <2>2. f(j) = f(l)
      BY <1>1, <2>1 DEF NoRepeat
    <2> QED
      BY <1>1, <1>7, <1>8, <2>2
  <1>10. \A q \in L \ {p} : \A j \in 1 .. Len(s), l \in 1 .. Len(K[q]) : s[j] # K[q][l]
    <2>1. ASSUME NEW q \in L \ {p}, NEW j \in 1 .. Len(s), NEW l \in 1 .. Len(K[q]),
                 s[j] = K[q][l]
          PROVE  FALSE
      <3>1. PICK y \in 1 .. Len(k) : s[j] = k[y]
        BY <1>1, <1>7, <1>8
      <3> QED
        BY <1>5, <2>1, <3>1
    <2> QED
      BY <2>1
  <1>11. \A q \in L \ {p} : N[q].first = n[q].first /\ N[q].last = n[q].last
                              /\ N[q].count = n[q].count
    BY <1>4 DEF Unlinked
  <1>12. \A q \in L \ {p} : \A j \in 1 .. Len(K[q]) : N[K[q][j]].next = n[K[q][j]].next
    <2>1. ASSUME NEW q \in L \ {p}, NEW j \in 1 .. Len(K[q])
          PROVE  N[K[q][j]].next = n[K[q][j]].next
      <3>1. K[q][j] \in Id /\ K[q][j] # c
        BY <1>5, <1>6, <1>8
      <3>2. i # 1 => K[q][j] # prev
        BY <1>3, <1>5, <1>8
      <3> QED
        BY <1>3, <1>4, <3>1, <3>2 DEF Unlinked
    <2> QED
      BY <2>1
  <1>13. n[p].count = Len(k) /\ n[p].last = k[Len(k)] /\ n[p].first = After(k, 0)
         /\ \A j \in 1 .. Len(k) : n[k[j]].next = After(k, j) /\ k[j] \in Id
    BY <1>1, <1>8 DEF Spells, Chain
  <1>14. Spells(N, p, s)
    <2>1. N[p].first = After(s, 0)
      <3>1. N[p].first = IF i = 1 THEN n[c].next ELSE n[p].first
        BY <1>2, <1>3, <1>4 DEF Unlinked
      <3> QED
        BY <1>1, <1>7, <1>8, <1>13, <3>1 DEF After
    <2>2. ASSUME NEW j \in 1 .. Len(s) PROVE N[s[j]].next = After(s, j)
      <3>0. /\ s[j] \in Id
            /\ N[s[j]].next = IF s[j] = c THEN NIL
                              ELSE IF s[j] = prev /\ i # 1 THEN n[c].next ELSE n[s[j]].next
        <4>1. s[j] \in Id
          BY <1>7
        <4> QED
          BY <1>3, <1>4, <4>1 DEF Unlinked
      <3>1. CASE j < i - 1
        <4>1. s[j] = k[j] /\ s[j + 1] = k[j + 1] /\ j \in 1 .. Len(k) /\ i - 1 \in 1 .. Len(k)
          <5>1. /\ j \in 1 .. Len(k) /\ i - 1 \in 1 .. Len(k) /\ j + 1 \in 1 .. Len(s)
                /\ j < i /\ j + 1 < i
            BY <1>1, <1>7, <1>8, <3>1
          <5>2. s[j] = k[j]
            BY <1>7, <5>1
          <5>3. s[j + 1] = k[j + 1]
            BY <1>7, <5>1
          <5> QED
            BY <5>1, <5>2, <5>3
        <4>2. k[j] # c /\ k[j] # k[i - 1]
          BY <1>1, <1>8, <3>1, <4>1 DEF NoRepeat
        <4>3. n[k[j]].next = k[j + 1] /\ After(s, j) = k[j + 1]
          BY <1>1, <1>7, <1>8, <1>13, <3>1, <4>1 DEF After
        <4> QED
          BY <1>3, <1>8, <3>0, <3>1, <4>1, <4>2, <4>3
      <3>2. CASE j = i - 1
        <4>1. s[j] = k[i - 1] /\ i # 1 /\ i - 1 \in 1 .. Len(k)
          BY <1>1, <1>7, <1>8, <3>2
        <4>2. k[i - 1] # c
          BY <1>1, <1>8, <4>1 DEF NoRepeat
        <4>3. n[c].next = After(k, i)
          BY <1>8, <1>13
        <4>4. After(k, i) = After(s, j)
          BY <1>1, <1>7, <1>8, <3>2 DEF After
        <4> QED
          BY <1>3, <3>0, <4>1, <4>2, <4>3, <4>4
      <3>3. CASE j >= i
        <4>1. s[j] = k[j + 1] /\ j + 1 \in 1 .. Len(k) /\ j + 1 # i /\ j + 1 # i - 1
          BY <1>1, <1>7, <1>8, <3>3
        <4>2. k[j + 1] # c
          BY <1>1, <1>8, <4>1 DEF NoRepeat
        <4>3. i # 1 => k[j + 1] # prev
          <5>1. i # 1 => i - 1 \in 1 .. Len(k)
            BY <1>8
          <5> QED
            BY <1>1, <1>3, <4>1, <5>1 DEF NoRepeat
        <4>4. After(k, j + 1) = After(s, j)
          BY <1>1, <1>7, <1>8, <3>3, <4>1 DEF After
        <4> QED
          BY <1>13, <3>0, <4>1, <4>2, <4>3, <4>4
      <3> QED
        BY <1>8, <3>1, <3>2, <3>3
    <2>3. N[p].count = Len(s)
      <3>1. N[p].count = (n[p].count - 1) % Wrap32
        BY <1>2, <1>4 DEF Unlinked
      <3>2. Len(k) - 1 \in 0 .. (Wrap32 - 1)
        BY <1>1, <1>8
      <3>3. (Len(k) - 1) % Wrap32 = Len(k) - 1
        BY <3>2
      <3> QED
        BY <1>7, <1>13, <3>1, <3>3
    <2>4. s # << >> => N[p].last = s[Len(s)]
      <3>1. N[p].last = IF n[p].last = c THEN IF i = 1 THEN NIL ELSE prev ELSE n[p].last
        BY <1>2, <1>3, <1>4 DEF Unlinked
      <3>2. n[p].last = c <=> i = Len(k)
        BY <1>1, <1>8, <1>13 DEF NoRepeat
      <3>3. s # << >> => Len(k) > 1
        BY <1>1, <1>7
      <3> QED
        BY <1>1, <1>3, <1>7, <1>8, <1>13, <3>1, <3>2, <3>3
    <2> QED
      BY <2>1, <2>2, <2>3, <2>4 DEF Spells, Chain
  <1> QED
    BY <1>7, <1>9, <1>10, <1>11, <1>12, <1>14, EditSound DEF N, s, c

\* A node that stands nowhere takes the place of an entry of one list, whatever
\* link the entry is left with.
LEMMA ReplaceSound ==
  ASSUME NEW n \in [Id -> DNode], NEW L \in SUBSET Id, NEW K, Sound(n, L, K),
         NEW p \in L, NEW i \in 1 .. Len(K[p]), NEW v \in L, Loose(K, v),
         NEW prev, i # 1 => prev = K[p][i - 1], NEW end, NEW N,
         Replaced(n, N, p, prev, K[p][i], v, end)
  PROVE  Sound(N, L, [K EXCEPT ![p] = [K[p] EXCEPT ![i] = v]])
  <1> DEFINE k == K[p]
             c == K[p][i]
             s == [K[p] EXCEPT ![i] = v]
  <1>1. /\ k \in Seq(L) /\ k \in Seq(Id) /\ Len(k) \in Nat
        /\ Spells(n, p, k) /\ NoRepeat(k)
    <2>1. ListOf(n, L, p, k)
      BY SoundList
    <2> QED
      BY <2>1 DEF ListOf
  <1>2. p \in Id /\ c \in Id /\ v \in Id
    BY <1>1
  <1>3. n[p].first = c <=> i = 1
    <2>1. n[p].first = k[1] /\ 1 \in 1 .. Len(k) /\ i \in 1 .. Len(k)
      BY <1>1 DEF Spells, Chain, After
    <2> HIDE DEF k
    <2> QED
      BY <1>1, <2>1 DEF NoRepeat, k
  <1>w. Apart(L, K, p) /\ Within(L, K)
    BY Elsewhere
  <1>4. \A j \in 1 .. Len(k) : \A q \in L \ {p} : \A l \in 1 .. Len(K[q]) : K[q][l] # k[j]
    BY <1>w DEF Apart
  <1>5. \A q \in L : \A j \in 1 .. Len(K[q]) : K[q][j] \in Id /\ K[q][j] # v
    BY <1>w DEF Within, Loose
  <1>6. /\ s \in Seq(L) /\ Len(s) = Len(k) /\ s[i] = v
        /\ \A j \in 1 .. Len(k) : j # i => s[j] = k[j]
    BY <1>1
  <1>7. c = k[i] /\ i \in 1 .. Len(k) /\ (i # 1 => prev = k[i - 1])
        /\ Replaced(n, N, p, prev, c, v, end)
    OBVIOUS
  <1>8. \A j \in 1 .. Len(k) : k[j] # v
    BY <1>5
  <1> HIDE DEF k, s, c
  <1>9. NoRepeat(s)
    <2> SUFFICES ASSUME NEW j \in 1 .. Len(s), NEW l \in 1 .. Len(s), s[j] = s[l] PROVE j = l
      BY DEF NoRepeat
    <2> QED
      BY <1>1, <1>6, <1>8 DEF NoRepeat
  <1>10. \A q \in L \ {p} : \A j \in 1 .. Len(s), l \in 1 .. Len(K[q]) : s[j] # K[q][l]
    <2>1. ASSUME NEW q \in L \ {p}, NEW j \in 1 .. Len(s), NEW l \in 1 .. Len(K[q]),
                 s[j] = K[q][l]
          PROVE  FALSE
      <3>1. CASE j = i
        BY <1>5, <1>6, <2>1, <3>1
      <3>2. CASE j # i
        BY <1>4, <1>6, <2>1, <3>2
      <3> QED
        BY <3>1, <3>2
    <2> QED
      BY <2>1
  <1>11. \A q \in L \ {p} : N[q].first = n[q].first /\ N[q].last = n[q].last
                              /\ N[q].count = n[q].count
    BY <1>7 DEF Replaced
  <1>12. \A q \in L \ {p} : \A j \in 1 .. Len(K[q]) : N[K[q][j]].next = n[K[q][j]].next
    <2>1. ASSUME NEW q \in L \ {p}, NEW j \in 1 .. Len(K[q])
          PROVE  N[K[q][j]].next = n[K[q][j]].next
      <3>1. K[q][j] \in Id /\ K[q][j] # c /\ K[q][j] # v
        BY <1>4, <1>5, <1>7
      <3>2. ASSUME i # 1 PROVE K[q][j] # prev
        <4>1. i - 1 \in 1 .. Len(k) /\ prev = k[i - 1]
          BY <1>1, <1>7, <3>2
        <4>2. K[q][j] # k[i - 1]
          BY <1>4, <4>1
        <4> QED
          BY <4>1, <4>2
      <3> QED
        BY <1>3, <1>7, <3>1, <3>2 DEF Replaced
    <2> QED
      BY <2>1
  <1>13. n[p].count = Len(k) /\ n[p].last = k[Len(k)] /\ n[p].first = After(k, 0)
         /\ \A j \in 1 .. Len(k) : n[k[j]].next = After(k, j) /\ k[j] \in Id
    BY <1>1, <1>7 DEF Spells, Chain
  <1>14. Spells(N, p, s)
    <2>1. N[p].first = After(s, 0)
      <3>1. N[p].first = IF i = 1 THEN v ELSE n[p].first
        BY <1>2, <1>3, <1>7 DEF Replaced
      <3> QED
        BY <1>1, <1>6, <1>7, <1>13, <3>1 DEF After
    <2>2. ASSUME NEW j \in 1 .. Len(s) PROVE N[s[j]].next = After(s, j)
      <3>0. /\ s[j] \in Id
            /\ N[s[j]].next
                 = IF s[j] = c THEN end ELSE IF s[j] = v THEN n[c].next
                   ELSE IF s[j] = prev /\ i # 1 THEN v ELSE n[s[j]].next
        <4>1. s[j] \in Id
          BY <1>6
        <4> QED
          BY <1>3, <1>7, <4>1 DEF Replaced
      <3>1. CASE j = i
        <4>1. s[j] = v /\ v # c
          BY <1>6, <1>7, <1>8, <3>1
        <4>2. n[c].next = After(k, i)
          BY <1>7, <1>13
        <4>3. After(k, i) = After(s, i)
          <5>1. i < Len(k) => i + 1 \in 1 .. Len(k) /\ i + 1 # i
            BY <1>1, <1>7
          <5> QED
            BY <1>1, <1>6, <5>1 DEF After
        <4> QED
          BY <3>0, <3>1, <4>1, <4>2, <4>3
      <3>2. CASE j = i - 1
        <4>1. s[j] = k[j] /\ i # 1 /\ j \in 1 .. Len(k) /\ j # i
          BY <1>6, <1>7, <3>2
        <4>2. k[j] # c /\ k[j] # v
          BY <1>1, <1>7, <1>8, <4>1 DEF NoRepeat
        <4>3. After(s, j) = v
          BY <1>1, <1>6, <1>7, <3>2 DEF After
        <4> QED
          BY <1>7, <3>0, <3>2, <4>1, <4>2, <4>3
      <3>3. CASE j # i /\ j # i - 1
        <4>1. s[j] = k[j] /\ j \in 1 .. Len(k)
          BY <1>6, <3>3
        <4>2. k[j] # c /\ k[j] # v
          BY <1>1, <1>7, <1>8, <3>3, <4>1 DEF NoRepeat
        <4>3. i # 1 => k[j] # prev
          <5>1. i # 1 => i - 1 \in 1 .. Len(k)
            BY <1>7
          <5> QED
            BY <1>1, <1>7, <3>3, <4>1, <5>1 DEF NoRepeat
        <4>4. After(k, j) = After(s, j)
          <5>1. j < Len(k) => j + 1 \in 1 .. Len(k) /\ j + 1 # i
            BY <1>1, <1>7, <3>3
          <5> QED
            BY <1>1, <1>6, <5>1 DEF After
        <4> QED
          BY <1>13, <3>0, <4>1, <4>2, <4>3, <4>4
      <3> QED
        BY <3>1, <3>2, <3>3
    <2>3. N[p].count = Len(s)
      BY <1>2, <1>6, <1>7, <1>13 DEF Replaced
    <2>4. s # << >> => N[p].last = s[Len(s)]
      <3>1. N[p].last = IF n[p].last = c THEN v ELSE n[p].last
        BY <1>2, <1>7 DEF Replaced
      <3>2. n[p].last = c <=> i = Len(k)
        BY <1>1, <1>7, <1>13 DEF NoRepeat
      <3> QED
        BY <1>1, <1>6, <1>7, <1>13, <3>1, <3>2
    <2> QED
      BY <2>1, <2>2, <2>3, <2>4 DEF Spells, Chain
  <1> QED
    BY <1>6, <1>9, <1>10, <1>11, <1>12, <1>14, EditSound DEF s

\* Only the links matter.
LEMMA SameLinksSound ==
  ASSUME NEW n, NEW N, NEW L \in SUBSET Id, NEW K, Sound(n, L, K),
         \A x \in Id : /\ N[x].first = n[x].first /\ N[x].last = n[x].last
                       /\ N[x].next = n[x].next /\ N[x].count = n[x].count
  PROVE  Sound(N, L, K)
  <1>1. K \in [Id -> Seq(L)]
    BY DEF Sound
  <1>2. ASSUME NEW p \in L PROVE Spells(N, p, K[p])
    <2>1. Spells(n, p, K[p]) /\ \A i \in 1 .. Len(K[p]) : K[p][i] \in Id
      BY <1>1 DEF Sound
    <2> QED
      BY <2>1 DEF Spells, Chain
  <1> QED
    BY <1>1, <1>2 DEF Sound

\* A fresh cell has the empty list and stands in none.
LEMMA NewSound ==
  ASSUME NEW n \in [Id -> DNode], NEW c \in Id, NEW L \in SUBSET Id, c \notin L,
         NEW K, Sound(n, L, K), NEW kind, NEW text
  PROVE  Sound([n EXCEPT ![c] = Fresh(kind, text)], L \union {c}, K)
  <1> DEFINE N == [n EXCEPT ![c] = Fresh(kind, text)]
             M == L \union {c}
  <1>1. K \in [Id -> Seq(L)] /\ K[c] = << >>
    BY DEF Sound
  <1>2. K \in [Id -> Seq(M)]
    <2>1. Seq(L) \subseteq Seq(M)
      OBVIOUS
    <2> HIDE DEF M
    <2> QED
      BY <1>1, <2>1
  <1>3. N[c].first = NIL /\ N[c].count = 0 /\ \A x \in L : N[x] = n[x]
    BY DEF Fresh
  <1> HIDE DEF N
  <1>4. ASSUME NEW p \in M PROVE Spells(N, p, K[p])
    <2>1. CASE p = c
      BY <1>1, <1>3, <2>1 DEF Spells, Chain, After
    <2>2. CASE p # c
      <3>1. p \in L /\ Spells(n, p, K[p]) /\ \A i \in 1 .. Len(K[p]) : K[p][i] \in L
        BY <1>1, <2>2 DEF Sound
      <3> QED
        BY <1>3, <3>1 DEF Spells, Chain
    <2> QED
      BY <2>1, <2>2
  <1> QED
    BY <1>2, <1>4 DEF Sound, N

-----------------------------------------------------------------------------
\* A pair that is placed: the key cell, then two links.
LEMMA PlacePairType ==
  ASSUME TypeOK, NEW m \in Live, NEW key \in Text, NEW v \in Live, PlacePair(m, key, v)
  PROVE  TypeOK'
  <1> DEFINE keyed == [nodes EXCEPT ![ncount] = Fresh("scalar", key)]
  <1>1. ncount \in Id /\ m \in Id /\ v \in Id
    BY DEF TypeOK, PlacePair, CanCreate, Id, Live
  <1>2. Fresh("scalar", key) \in DNode
    BY FreshType DEF Kinds
  <1>3. keyed \in [Id -> DNode]
    BY <1>2 DEF TypeOK
  <1> HIDE DEF keyed
  <1>4. mut_link(keyed, m, ncount) \in [Id -> DNode]
    BY <1>1, <1>3, MutLinkType
  <1>5. mut_link(mut_link(keyed, m, ncount), m, v) \in [Id -> DNode]
    BY <1>1, <1>4, MutLinkType
  <1>6. nodes' \in [Id -> DNode]
    BY <1>5 DEF PlacePair, keyed
  <1>7. ncount' \in 0 .. MaxNodes /\ docs' \in Seq(Id) /\ displaced' \in SUBSET Id
    BY <1>1 DEF TypeOK, PlacePair, Id
  <1>8. DOMAIN tabs' = Id /\ cache'.id \in Link
    BY DEF TypeOK, PlacePair, NoCache, Link
  <1> QED
    BY <1>6, <1>7, <1>8 DEF TypeOK

\* A step that changes only the arena keeps the rest typed.
LEMMA ArenaOnly ==
  ASSUME TypeOK, nodes' \in [Id -> DNode], UNCHANGED <<ncount, docs, displaced>>,
         cache' = NoCache \/ cache' = cache,
         UNCHANGED tabs \/ \E m \in Id : \E t : tabs' = [tabs EXCEPT ![m] = t]
  PROVE  TypeOK'
  <1>1. DOMAIN tabs' = Id /\ cache'.id \in Link
    BY DEF TypeOK, NoCache, Link
  <1> QED
    BY <1>1 DEF TypeOK

\* Every call of the API keeps the document well typed.
LEMMA NextType == TypeOK /\ [Next]_vars => TypeOK'
  <1> SUFFICES ASSUME TypeOK, [Next]_vars PROVE TypeOK'
    OBVIOUS
  <1> USE DEF caches
  <1>0. Live \subseteq Id /\ nodes \in [Id -> DNode]
    BY DEF TypeOK, Live, Id
  <1>1. ASSUME NEW kind \in Kinds, NEW t \in Text, New(kind, t) PROVE TypeOK'
    <2>1. ncount \in Id
      BY <1>1 DEF New, CanCreate, TypeOK, Id
    <2>2. nodes' \in [Id -> DNode]
      BY <1>0, <1>1, <2>1, FreshType DEF New
    <2> QED
      BY <1>1, <2>1, <2>2 DEF New, TypeOK, Id
  <1>2. ASSUME NEW s \in Live, NEW v \in Live, SeqAdd(s, v) PROVE TypeOK'
    <2>1. nodes' \in [Id -> DNode]
      BY <1>0, <1>2, MutLinkType DEF SeqAdd
    <2> QED
      BY <1>2, <2>1, ArenaOnly DEF SeqAdd
  <1>3. ASSUME NEW s \in Live, NEW v \in Live, NEW i, SeqSet(s, i, v) PROVE TypeOK'
    <2>1. nodes' \in [Id -> DNode]
      BY <1>0, <1>3, SeqSpliceType DEF SeqSet
    <2> QED
      BY <1>3, <2>1, ArenaOnly DEF SeqSet
  <1>4. ASSUME NEW s \in Live, NEW i, SeqDel(s, i) PROVE TypeOK'
    <2>1. nodes' \in [Id -> DNode]
      BY <1>0, <1>4, UnlinkType DEF SeqDel
    <2> QED
      BY <1>4, <2>1, ArenaOnly DEF SeqDel
  <1>5. ASSUME NEW m \in Live, NEW v \in Live, NEW t \in Text, MapAdd(m, t, v)
        PROVE  TypeOK'
    BY <1>5, PlacePairType DEF MapAdd
  <1>6. ASSUME NEW m \in Live, NEW v \in Live, NEW t \in Text, MapReplace(m, t, v)
        PROVE  TypeOK'
    <2>1. PICK k \in Id : /\ nodes[k].next # NIL
                          /\ nodes' = map_splice(nodes, m, k, v)
                          /\ displaced' = displaced \union {nodes[k].next}
      BY <1>6 DEF MapReplace
    <2>2. nodes' \in [Id -> DNode]
      BY <1>0, <2>1, MapSpliceType
    <2>3. nodes[k].next \in Id
      BY <1>0, <2>1 DEF DNode, Link
    <2>4. displaced' \in SUBSET Id
      BY <2>1, <2>3 DEF TypeOK
    <2> QED
      BY <1>6, <2>2, <2>4 DEF MapReplace, TypeOK
  <1>7. ASSUME NEW m \in Live, NEW k \in Live, NEW v \in Live, MapAddNode(m, k, v)
        PROVE  TypeOK'
    <2>1. mut_link(nodes, m, k) \in [Id -> DNode]
      BY <1>0, MutLinkType
    <2>2. nodes' \in [Id -> DNode]
      BY <1>0, <1>7, <2>1, MutLinkType DEF MapAddNode
    <2> QED
      BY <1>0, <1>7, <2>2, ArenaOnly DEF MapAddNode
  <1>8. ASSUME NEW m \in Live, NEW t \in Text, MapDel(m, t) PROVE TypeOK'
    <2>1. PICK k \in Id :
             /\ CanUnlink(nodes, m, k)
             /\ LET w == nodes[k].next
                    cut == unlink_child(nodes, m, k)
                IN  nodes' = IF CanUnlink(cut, m, w) THEN unlink_child(cut, m, w) ELSE cut
      BY <1>8 DEF MapDel
    <2> DEFINE w == nodes[k].next
               cut == unlink_child(nodes, m, k)
    <2>2. cut \in [Id -> DNode]
      BY <1>0, <2>1, UnlinkType
    <2>3. w \in Link
      BY <1>0 DEF DNode
    <2>4. CanUnlink(cut, m, w) => w \in Id
      BY <2>3 DEF CanUnlink, Link
    <2> HIDE DEF cut, w
    <2>5. CanUnlink(cut, m, w) => unlink_child(cut, m, w) \in [Id -> DNode]
      BY <1>0, <2>2, <2>4, UnlinkType
    <2>6. nodes' \in [Id -> DNode]
      BY <2>1, <2>2, <2>5 DEF cut, w
    <2> QED
      BY <1>0, <1>8, <2>6, ArenaOnly DEF MapDel
  <1>9. ASSUME NEW r \in Live, SetRoot(r) PROVE TypeOK'
    <2>1. [nodes EXCEPT ![r].att = TRUE] \in [Id -> DNode]
      BY <1>0, FieldTypes
    <2>2. nodes' \in [Id -> DNode]
      BY <1>9, <2>1, SetDepthsType DEF SetRoot
    <2>3. docs' \in Seq(Id)
      BY <1>0, <1>9 DEF SetRoot, TypeOK
    <2> QED
      BY <1>9, <2>2, <2>3 DEF SetRoot, TypeOK
  <1>10. ASSUME NEW p \in Live, SeqAt(p) PROVE TypeOK'
    <2>1. cache'.id \in Link
      BY <1>0, <1>10 DEF SeqAt, TypeOK, Link
    <2> QED
      BY <1>10, <2>1 DEF SeqAt, TypeOK
  <1>11. ASSUME NEW p \in Live, MapGet(p) PROVE TypeOK'
    BY <1>11 DEF MapGet, TypeOK
  <1>12. CASE UNCHANGED vars
    BY <1>12 DEF vars, TypeOK
  <1>13. Empty \in Text /\ \A k \in {"scalar", "seq", "map", "alias"} : k \in Kinds
    BY TextAssumption DEF Kinds
  <1>14. CASE Next
    <2>1. CASE \E t \in Text : NewScalar(t) \/ NewAlias(t)
      BY <2>1, <1>1, <1>13 DEF NewScalar, NewAlias
    <2>2. CASE NewSequence \/ NewMapping
      BY <2>2, <1>1, <1>13 DEF NewSequence, NewMapping
    <2>3. CASE \E m, v \in Live, t \in Text : MapSet(m, t, v)
      BY <2>3, <1>5, <1>6 DEF MapSet
    <2> QED
      BY <1>14, <2>1, <2>2, <2>3, <1>2, <1>3, <1>4, <1>7, <1>8, <1>9, <1>10, <1>11
      DEF Next
  <1> QED
    BY <1>12, <1>14

\* The document the calls begin with is well typed.
LEMMA InitType == Init => TypeOK
  BY StartAssumption DEF Init, TypeOK, NoCache, Link

\* Type correctness: whatever the host calls, and whatever the sibling chains
\* look like, the links, counters and roots of the document (dom.c, mutate.c)
\* stay inside the arena and within their widths.
THEOREM TypeCorrect == Spec => []TypeOK
  BY InitType, NextType, PTL DEF Spec

-----------------------------------------------------------------------------
(* Single edits of a whole document.                                       *)

Kept(n, L, K, ds, gone) == Sound(n, L, K) /\ RootsApart(L, K, ds) /\ Marked(n, L, K, ds, gone)

\* x has a place once p's list is s: as an entry of s, or where it was if that
\* is not in p's list.
PlacedBy(K, ds, p, s, x) ==
  \/ \E i \in 1 .. Len(s) : s[i] = x
  \/ Placed(K, ds, x) /\ \A i \in 1 .. Len(K[p]) : K[p][i] # x

\* Who has a place after one list has changed.
LEMMA PlacedAfter ==
  ASSUME NEW L, NEW K \in [Id -> Seq(L)], OnePlace(K), NEW ds, RootsApart(L, K, ds),
         NEW p \in Id, NEW s, NEW x
  PROVE  Placed([K EXCEPT ![p] = s], ds, x) <=> PlacedBy(K, ds, p, s, x)
  <1> DEFINE J == [K EXCEPT ![p] = s]
  <1>1. J[p] = s /\ \A q \in Id : q # p => J[q] = K[q]
    OBVIOUS
  <1> HIDE DEF J
  <1>2. ASSUME NEW i \in 1 .. Len(s), s[i] = x PROVE Placed(J, ds, x)
    BY <1>1, <1>2 DEF Placed
  <1>3. ASSUME Placed(K, ds, x), \A i \in 1 .. Len(K[p]) : K[p][i] # x PROVE Placed(J, ds, x)
    <2>1. CASE \E q \in Id : \E i \in 1 .. Len(K[q]) : K[q][i] = x
      <3>1. PICK q \in Id : \E i \in 1 .. Len(K[q]) : K[q][i] = x
        BY <2>1
      <3>2. q # p
        BY <1>3, <3>1
      <3> QED
        BY <1>1, <3>1, <3>2 DEF Placed
    <2>2. CASE \E i \in 1 .. Len(ds) : ds[i] = x
      BY <2>2 DEF Placed
    <2> QED
      BY <1>3, <2>1, <2>2 DEF Placed
  <1>4. ASSUME Placed(J, ds, x), ~ \E i \in 1 .. Len(s) : s[i] = x
        PROVE  Placed(K, ds, x) /\ \A i \in 1 .. Len(K[p]) : K[p][i] # x
    <2>1. CASE \E q \in Id : \E i \in 1 .. Len(J[q]) : J[q][i] = x
      <3>1. PICK q \in Id : \E i \in 1 .. Len(J[q]) : J[q][i] = x
        BY <2>1
      <3>2. q # p
        BY <1>1, <1>4, <3>1
      <3>3. PICK j \in 1 .. Len(K[q]) : K[q][j] = x
        BY <1>1, <3>1, <3>2
      <3>4. \A i \in 1 .. Len(K[p]) : K[p][i] # x
        BY <3>2, <3>3 DEF OnePlace
      <3> QED
        BY <3>3, <3>4 DEF Placed
    <2>2. CASE \E i \in 1 .. Len(ds) : ds[i] = x
      BY <2>2 DEF Placed, RootsApart
    <2> QED
      BY <1>4, <2>1, <2>2 DEF Placed
  <1> QED
    BY <1>2, <1>3, <1>4 DEF J, PlacedBy

\* Roots stay apart from lists that take in only nodes without a place.
LEMMA RootsAfter ==
  ASSUME NEW L, NEW K \in [Id -> Seq(L)], NEW ds, RootsApart(L, K, ds),
         NEW p \in Id, NEW s,
         \A i \in 1 .. Len(s) :
           (\E j \in 1 .. Len(K[p]) : K[p][j] = s[i]) \/ ~Placed(K, ds, s[i])
  PROVE  RootsApart(L, [K EXCEPT ![p] = s], ds)
  <1> DEFINE J == [K EXCEPT ![p] = s]
  <1>1. J[p] = s /\ \A q \in Id : q # p => J[q] = K[q]
    OBVIOUS
  <1> HIDE DEF J
  <1>2. ASSUME NEW q \in Id, NEW i \in 1 .. Len(J[q]), NEW j \in 1 .. Len(ds), J[q][i] = ds[j]
        PROVE  FALSE
    <2>1. CASE q = p
      <3>1. i \in 1 .. Len(s) /\ s[i] = ds[j]
        BY <1>1, <1>2, <2>1
      <3>2. Placed(K, ds, s[i])
        BY <3>1 DEF Placed
      <3>3. PICK l \in 1 .. Len(K[p]) : K[p][l] = s[i]
        BY <3>1, <3>2
      <3> QED
        BY <3>1, <3>3 DEF RootsApart
    <2>2. CASE q # p
      BY <1>1, <1>2, <2>2 DEF RootsApart
    <2> QED
      BY <2>1, <2>2
  <1> QED
    BY <1>2 DEF RootsApart, J

\* A node without a place stands in no list.
LEMMA LooseIs ==
  ASSUME NEW K, NEW ds, NEW c, ~Placed(K, ds, c)
  PROVE  Loose(K, c)
  BY DEF Placed, Loose

\* mut_link gives a place to a node that has none.
LEMMA LinkKeeps ==
  ASSUME NEW n \in [Id -> DNode], NEW L \in SUBSET Id, NEW K, NEW ds, NEW gone,
         Kept(n, L, K, ds, gone), NEW p \in L, NEW c \in L,
         ~Placed(K, ds, c), n[c].next = NIL
  PROVE  Kept(mut_link(n, p, c), L, [K EXCEPT ![p] = Append(K[p], c)], ds, gone)
  <1> DEFINE N == mut_link(n, p, c)
             k == K[p]
             s == Append(K[p], c)
             J == [K EXCEPT ![p] = s]
  <1>1. Sound(n, L, K) /\ RootsApart(L, K, ds) /\ Marked(n, L, K, ds, gone)
    BY DEF Kept
  <1>2. Sound(N, L, J)
    BY <1>1, LooseIs, LinkSound
  <1>3. p \in Id /\ c \in Id /\ K \in [Id -> Seq(L)] /\ OnePlace(K)
    BY <1>1 DEF Sound
  <1>4. Linked(n, N, p, c)
    BY <1>3, LinkFields
  <1>5. ListOf(n, L, p, k)
    BY <1>1, SoundList
  <1>6. /\ Len(k) \in Nat /\ Len(s) = Len(k) + 1 /\ s[Len(s)] = c
        /\ \A i \in 1 .. Len(k) : s[i] = k[i]
    BY <1>5 DEF ListOf
  <1>7. n[p].count # 0 => Placed(K, ds, n[p].last)
    <2>1. n[p].count # 0 => Len(k) \in 1 .. Len(k) /\ n[p].last = k[Len(k)]
      BY <1>5 DEF ListOf, Spells
    <2> QED
      BY <1>3, <2>1 DEF Placed
  <1> HIDE DEF N, s, k
  <1>8. RootsApart(L, J, ds)
    <2>1. ASSUME NEW i \in 1 .. Len(s)
          PROVE  (\E j \in 1 .. Len(K[p]) : K[p][j] = s[i]) \/ ~Placed(K, ds, s[i])
      <3>1. CASE i \in 1 .. Len(k)
        BY <1>6, <3>1 DEF k
      <3>2. CASE i \notin 1 .. Len(k)
        BY <1>6, <3>2
      <3> QED
        BY <3>1, <3>2
    <2> QED
      BY <1>1, <1>3, <2>1, RootsAfter
  <1>9. ASSUME NEW x PROVE Placed(J, ds, x) <=> Placed(K, ds, x) \/ x = c
    <2>1. Placed(J, ds, x) <=> PlacedBy(K, ds, p, s, x)
      BY <1>1, <1>3, PlacedAfter
    <2>2. (\E i \in 1 .. Len(s) : s[i] = x) <=> x = c \/ \E i \in 1 .. Len(k) : k[i] = x
      BY <1>6
    <2>3. (\E i \in 1 .. Len(k) : k[i] = x) => Placed(K, ds, x)
      BY <1>3 DEF Placed, k
    <2> QED
      BY <2>1, <2>2, <2>3 DEF k, PlacedBy
  <1> HIDE DEF J
  <1>10. Marked(N, L, J, ds, gone)
    <2> SUFFICES ASSUME NEW x \in L
                 PROVE  /\ N[x].att => Placed(J, ds, x)
                        /\ Placed(J, ds, x) => N[x].att \/ x \in Start.parsed
                        /\ Placed(J, ds, x) \/ x \in gone \/ N[x].next = NIL
      BY DEF Marked
    <2>1. /\ n[x].att => Placed(K, ds, x)
          /\ Placed(K, ds, x) => n[x].att \/ x \in Start.parsed
          /\ Placed(K, ds, x) \/ x \in gone \/ n[x].next = NIL
      BY <1>1 DEF Marked
    <2>2. CASE x = c
      <3>1. N[x].att = TRUE
        BY <1>3, <1>4, <2>2 DEF Linked
      <3> QED
        BY <1>9, <2>2, <3>1
    <2>3. CASE x # c
      <3>1. N[x].att = n[x].att
        BY <1>4, <2>3 DEF Linked
      <3>2. Placed(J, ds, x) <=> Placed(K, ds, x)
        BY <1>9, <2>3
      <3>3. N[x].next = n[x].next \/ (n[p].count # 0 /\ x = n[p].last)
        BY <1>4 DEF Linked
      <3> QED
        BY <1>7, <2>1, <3>1, <3>2, <3>3
    <2> QED
      BY <2>2, <2>3
  <1> QED
    BY <1>2, <1>8, <1>10 DEF Kept, N, J, s

\* unlink_child takes the place away and leaves no link behind.
LEMMA UnlinkKeeps ==
  ASSUME NEW n \in [Id -> DNode], NEW L \in SUBSET Id, NEW K, NEW ds, NEW gone,
         Kept(n, L, K, ds, gone), NEW p \in L, NEW i \in 1 .. Len(K[p])
  PROVE  Kept(unlink_child(n, p, K[p][i]), L, [K EXCEPT ![p] = Without(K[p], i)], ds, gone)
  <1> DEFINE k == K[p]
             c == K[p][i]
             N == unlink_child(n, p, c)
             prev == Prev(n, p, c)
             s == Without(K[p], i)
             J == [K EXCEPT ![p] = s]
  <1>1. Sound(n, L, K) /\ RootsApart(L, K, ds) /\ Marked(n, L, K, ds, gone)
    BY DEF Kept
  <1>2. Sound(N, L, J)
    BY <1>1, UnlinkSound
  <1>3. p \in Id /\ K \in [Id -> Seq(L)] /\ OnePlace(K) /\ c \in L /\ c \in Id
    BY <1>1 DEF Sound
  <1>4. CanUnlink(n, p, c) /\ (n[p].first = c <=> i = 1) /\ (i # 1 => prev = k[i - 1])
    BY <1>1, PrevIs
  <1>5. Unlinked(n, N, p, c, prev)
    BY <1>3, <1>4, UnlinkFields
  <1>6. ListOf(n, L, p, k)
    BY <1>1, SoundList
  <1>7. /\ Len(k) \in Nat /\ i \in 1 .. Len(k) /\ c = k[i] /\ Len(s) = Len(k) - 1
        /\ \A j \in 1 .. (Len(k) - 1) : s[j] = IF j < i THEN k[j] ELSE k[j + 1]
    BY <1>3, <1>6, WithoutIs DEF ListOf
  <1>8. i # 1 => Placed(K, ds, prev)
    <2>1. i # 1 => i - 1 \in 1 .. Len(k)
      BY <1>7
    <2> QED
      BY <1>3, <1>4, <2>1 DEF Placed
  <1> HIDE DEF N, s, k, c, prev
  <1>9. \A j \in 1 .. Len(s) : \E l \in 1 .. Len(k) : l # i /\ k[l] = s[j]
    BY <1>7
  <1>10. \A l \in 1 .. Len(k) : l # i => \E j \in 1 .. Len(s) : s[j] = k[l]
    <2>1. ASSUME NEW l \in 1 .. Len(k), l # i PROVE \E j \in 1 .. Len(s) : s[j] = k[l]
      <3>1. CASE l < i
        <4>1. l \in 1 .. Len(s) /\ s[l] = k[l]
          BY <1>7, <3>1
        <4> QED
          BY <4>1
      <3>2. CASE l > i
        <4>1. l - 1 \in 1 .. Len(s) /\ s[l - 1] = k[l]
          BY <1>7, <3>2
        <4> QED
          BY <4>1
      <3> QED
        BY <1>7, <2>1, <3>1, <3>2
    <2> QED
      BY <2>1
  <1>11. RootsApart(L, J, ds)
    BY <1>1, <1>3, <1>9, RootsAfter DEF k
  <1>12. ASSUME NEW x PROVE Placed(J, ds, x) <=> Placed(K, ds, x) /\ x # c
    <2>1. Placed(J, ds, x) <=> PlacedBy(K, ds, p, s, x)
      BY <1>1, <1>3, PlacedAfter
    <2>2. (\E j \in 1 .. Len(s) : s[j] = x) <=> x # c /\ \E j \in 1 .. Len(k) : k[j] = x
      <3>1. \A j, l \in 1 .. Len(k) : k[j] = k[l] => j = l
        BY <1>6 DEF ListOf, NoRepeat
      <3>2. ASSUME NEW j \in 1 .. Len(s), s[j] = x
            PROVE  x # c /\ \E l \in 1 .. Len(k) : k[l] = x
        <4>1. PICK l \in 1 .. Len(k) : l # i /\ k[l] = x
          BY <1>9, <3>2
        <4> QED
          BY <1>7, <3>1, <4>1
      <3>3. ASSUME x # c, NEW l \in 1 .. Len(k), k[l] = x
            PROVE  \E j \in 1 .. Len(s) : s[j] = x
        BY <1>7, <1>10, <3>3
      <3> QED
        BY <3>2, <3>3
    <2>3. (\E j \in 1 .. Len(k) : k[j] = x) => Placed(K, ds, x)
      BY <1>3 DEF Placed, k
    <2>4. (\A j \in 1 .. Len(k) : k[j] # x) => x # c
      BY <1>7
    <2> QED
      BY <2>1, <2>2, <2>3, <2>4 DEF k, PlacedBy
  <1> HIDE DEF J
  <1>13. Marked(N, L, J, ds, gone)
    <2> SUFFICES ASSUME NEW x \in L
                 PROVE  /\ N[x].att => Placed(J, ds, x)
                        /\ Placed(J, ds, x) => N[x].att \/ x \in Start.parsed
                        /\ Placed(J, ds, x) \/ x \in gone \/ N[x].next = NIL
      BY DEF Marked
    <2>1. /\ n[x].att => Placed(K, ds, x)
          /\ Placed(K, ds, x) => n[x].att \/ x \in Start.parsed
          /\ Placed(K, ds, x) \/ x \in gone \/ n[x].next = NIL
      BY <1>1 DEF Marked
    <2>2. CASE x = c
      <3>1. N[x].att = FALSE /\ N[x].next = NIL
        BY <1>3, <1>5, <2>2 DEF Unlinked
      <3> QED
        BY <1>12, <2>2, <3>1
    <2>3. CASE x # c
      <3>1. N[x].att = n[x].att
        BY <1>5, <2>3 DEF Unlinked
      <3>2. Placed(J, ds, x) <=> Placed(K, ds, x)
        BY <1>12, <2>3
      <3>3. N[x].next = n[x].next \/ (i # 1 /\ x = prev)
        BY <1>4, <1>5, <2>3 DEF Unlinked
      <3> QED
        BY <1>8, <2>1, <3>1, <3>2, <3>3
    <2> QED
      BY <2>2, <2>3
  <1> QED
    BY <1>2, <1>11, <1>13 DEF Kept, N, J, s, c

\* A replacement gives the place of one node to one that has none; the node that
\* loses it is left without a link or is recorded as displaced.
LEMMA ReplaceKeeps ==
  ASSUME NEW n \in [Id -> DNode], NEW L \in SUBSET Id, NEW K, NEW ds, NEW gone,
         Kept(n, L, K, ds, gone), NEW p \in L, NEW i \in 1 .. Len(K[p]), NEW v \in L,
         ~Placed(K, ds, v), NEW prev, i # 1 => prev = K[p][i - 1], NEW end, NEW N,
         Replaced(n, N, p, prev, K[p][i], v, end),
         NEW left, gone \subseteq left, end = NIL \/ K[p][i] \in left
  PROVE  Kept(N, L, [K EXCEPT ![p] = [K[p] EXCEPT ![i] = v]], ds, left)
  <1> DEFINE k == K[p]
             c == K[p][i]
             s == [K[p] EXCEPT ![i] = v]
             J == [K EXCEPT ![p] = s]
  <1>1. Sound(n, L, K) /\ RootsApart(L, K, ds) /\ Marked(n, L, K, ds, gone)
    BY DEF Kept
  <1>2. Sound(N, L, J)
    BY <1>1, LooseIs, ReplaceSound
  <1>3. p \in Id /\ K \in [Id -> Seq(L)] /\ OnePlace(K) /\ c \in L /\ c \in Id /\ v \in Id
    BY <1>1 DEF Sound
  <1>4. Replaced(n, N, p, prev, c, v, end) /\ (end = NIL \/ c \in left)
    OBVIOUS
  <1>5. ListOf(n, L, p, k)
    BY <1>1, SoundList
  <1>6. /\ Len(k) \in Nat /\ i \in 1 .. Len(k) /\ c = k[i] /\ Len(s) = Len(k)
        /\ s[i] = v /\ \A j \in 1 .. Len(k) : j # i => s[j] = k[j]
    BY <1>5 DEF ListOf
  <1>7. /\ i # 1 => Placed(K, ds, prev)
        /\ n[p].first = c => i = 1
    <2>1. i # 1 => i - 1 \in 1 .. Len(k)
      BY <1>6
    <2>2. n[p].first = k[1] /\ 1 \in 1 .. Len(k)
      BY <1>5, <1>6 DEF ListOf, Spells, Chain, After
    <2>3. \A j, l \in 1 .. Len(k) : k[j] = k[l] => j = l
      BY <1>5 DEF ListOf, NoRepeat
    <2>4. i # 1 => Placed(K, ds, prev)
      BY <1>3, <2>1 DEF Placed
    <2> HIDE DEF k, c
    <2> QED
      BY <1>6, <2>2, <2>3, <2>4
  <1>8. v # c
    <2>1. Placed(K, ds, c)
      BY <1>3 DEF Placed
    <2> QED
      BY <2>1
  <1> HIDE DEF s, k, c
  <1>9. RootsApart(L, J, ds)
    <2>1. ASSUME NEW j \in 1 .. Len(s)
          PROVE  (\E l \in 1 .. Len(K[p]) : K[p][l] = s[j]) \/ ~Placed(K, ds, s[j])
      BY <1>6 DEF k
    <2> QED
      BY <1>1, <1>3, <2>1, RootsAfter
  <1>10. ASSUME NEW x PROVE Placed(J, ds, x) <=> (Placed(K, ds, x) /\ x # c) \/ x = v
    <2>1. Placed(J, ds, x) <=> PlacedBy(K, ds, p, s, x)
      BY <1>1, <1>3, PlacedAfter
    <2>2. (\E j \in 1 .. Len(s) : s[j] = x) <=> x = v \/ (x # c /\ \E j \in 1 .. Len(k) : k[j] = x)
      <3>1. \A j, l \in 1 .. Len(k) : k[j] = k[l] => j = l
        BY <1>5 DEF ListOf, NoRepeat
      <3>2. ASSUME NEW j \in 1 .. Len(s), s[j] = x, x # v
            PROVE  x # c /\ \E l \in 1 .. Len(k) : k[l] = x
        BY <1>6, <3>1, <3>2
      <3>3. ASSUME x # c, NEW l \in 1 .. Len(k), k[l] = x
            PROVE  \E j \in 1 .. Len(s) : s[j] = x
        BY <1>6, <3>3
      <3>4. x = v => \E j \in 1 .. Len(s) : s[j] = x
        BY <1>6
      <3> QED
        BY <3>2, <3>3, <3>4
    <2>3. (\E j \in 1 .. Len(k) : k[j] = x) => Placed(K, ds, x)
      BY <1>3 DEF Placed, k
    <2>4. (\A j \in 1 .. Len(k) : k[j] # x) => x # c
      BY <1>6
    <2> QED
      BY <2>1, <2>2, <2>3, <2>4 DEF k, PlacedBy
  <1> HIDE DEF J
  <1>11. Marked(N, L, J, ds, left)
    <2> SUFFICES ASSUME NEW x \in L
                 PROVE  /\ N[x].att => Placed(J, ds, x)
                        /\ Placed(J, ds, x) => N[x].att \/ x \in Start.parsed
                        /\ Placed(J, ds, x) \/ x \in left \/ N[x].next = NIL
      BY DEF Marked
    <2>1. /\ n[x].att => Placed(K, ds, x)
          /\ Placed(K, ds, x) => n[x].att \/ x \in Start.parsed
          /\ Placed(K, ds, x) \/ x \in gone \/ n[x].next = NIL
      BY <1>1 DEF Marked
    <2>2. CASE x = c
      <3>1. N[x].att = FALSE /\ N[x].next = end
        BY <1>3, <1>4, <2>2 DEF Replaced
      <3> QED
        BY <1>4, <1>8, <1>10, <2>2, <3>1
    <2>3. CASE x = v
      <3>1. N[x].att = TRUE
        BY <1>3, <1>4, <2>3 DEF Replaced
      <3> QED
        BY <1>10, <2>3, <3>1
    <2>4. CASE x # c /\ x # v
      <3>1. N[x].att = n[x].att
        BY <1>4, <2>4 DEF Replaced
      <3>2. Placed(J, ds, x) <=> Placed(K, ds, x)
        BY <1>10, <2>4
      <3>3. N[x].next = n[x].next \/ (i # 1 /\ x = prev) \/ (i = 1 /\ n[p].first # c)
        BY <1>4, <2>4 DEF Replaced
      <3>4. ~(i = 1 /\ n[p].first # c)
        <4>1. n[p].first = k[1]
          BY <1>5, <1>6 DEF ListOf, Spells, Chain, After
        <4> QED
          BY <1>6, <4>1
      <3> QED
        BY <1>7, <2>1, <3>1, <3>2, <3>3, <3>4
    <2> QED
      BY <2>2, <2>3, <2>4
  <1> QED
    BY <1>2, <1>9, <1>11 DEF Kept, J, s

\* A fresh cell has no place and no link.
LEMMA NewKeeps ==
  ASSUME NEW n \in [Id -> DNode], NEW c \in Id, NEW L \in SUBSET Id, c \notin L,
         NEW K, NEW ds, NEW gone, Kept(n, L, K, ds, gone), NEW kind, NEW text
  PROVE  /\ Kept([n EXCEPT ![c] = Fresh(kind, text)], L \union {c}, K, ds, gone)
         /\ ~Placed(K, ds, c)
  <1> DEFINE N == [n EXCEPT ![c] = Fresh(kind, text)]
             M == L \union {c}
  <1>1. Sound(n, L, K) /\ RootsApart(L, K, ds) /\ Marked(n, L, K, ds, gone)
    BY DEF Kept
  <1>2. Sound(N, M, K)
    BY <1>1, NewSound
  <1>3. K \in [Id -> Seq(L)] /\ ds \in Seq(L)
    BY <1>1 DEF Sound, RootsApart
  <1>4. ~Placed(K, ds, c)
    BY <1>3 DEF Placed
  <1>5. RootsApart(M, K, ds)
    <2>1. ds \in Seq(M)
      BY <1>3
    <2> QED
      BY <1>1, <2>1 DEF RootsApart
  <1>6. N[c].att = FALSE /\ N[c].next = NIL /\ \A x \in L : N[x] = n[x]
    BY DEF Fresh
  <1> HIDE DEF N
  <1>7. Marked(N, M, K, ds, gone)
    BY <1>1, <1>4, <1>6 DEF Marked
  <1> QED
    BY <1>2, <1>4, <1>5, <1>7 DEF Kept, N

\* Declaring a node without a place a root gives it one.
LEMMA RootKeeps ==
  ASSUME NEW n \in [Id -> DNode], NEW L \in SUBSET Id, NEW K, NEW ds, NEW gone,
         Kept(n, L, K, ds, gone), NEW r \in L, ~Placed(K, ds, r), NEW N,
         \A x \in Id : /\ N[x].first = n[x].first /\ N[x].last = n[x].last
                       /\ N[x].next = n[x].next /\ N[x].count = n[x].count
                       /\ x = r => N[x].att = TRUE
                       /\ x # r => N[x].att = n[x].att
  PROVE  Kept(N, L, K, Append(ds, r), gone)
  <1> DEFINE es == Append(ds, r)
  <1>1. Sound(n, L, K) /\ RootsApart(L, K, ds) /\ Marked(n, L, K, ds, gone)
    BY DEF Kept
  <1>2. Sound(N, L, K)
    BY <1>1, SameLinksSound
  <1>3. K \in [Id -> Seq(L)] /\ ds \in Seq(L) /\ Len(ds) \in Nat
    BY <1>1 DEF Sound, RootsApart
  <1>4. /\ es \in Seq(L) /\ Len(es) = Len(ds) + 1 /\ es[Len(es)] = r
        /\ \A i \in 1 .. Len(ds) : es[i] = ds[i]
    BY <1>3
  <1> HIDE DEF es
  <1>5. (\A p \in Id : \A i \in 1 .. Len(K[p]) : K[p][i] # r) /\ \A i \in 1 .. Len(ds) : ds[i] # r
    BY DEF Placed
  <1>6. RootsApart(L, K, es)
    <2>1. ASSUME NEW i \in 1 .. Len(es), NEW j \in 1 .. Len(es), es[i] = es[j] PROVE i = j
      <3>0. \A a, b \in 1 .. Len(ds) : ds[a] = ds[b] => a = b
        BY <1>1 DEF RootsApart
      <3>1. CASE i \in 1 .. Len(ds) /\ j \in 1 .. Len(ds)
        BY <1>4, <2>1, <3>0, <3>1
      <3>2. CASE i \notin 1 .. Len(ds)
        <4>1. i = Len(es) /\ es[j] = r
          BY <1>3, <1>4, <2>1, <3>2
        <4>2. j \notin 1 .. Len(ds)
          BY <1>4, <1>5, <4>1
        <4> QED
          BY <1>3, <1>4, <4>1, <4>2
      <3>3. CASE j \notin 1 .. Len(ds)
        <4>1. j = Len(es) /\ es[i] = r
          BY <1>3, <1>4, <2>1, <3>3
        <4>2. i \notin 1 .. Len(ds)
          BY <1>4, <1>5, <4>1
        <4> QED
          BY <1>3, <1>4, <4>1, <4>2
      <3> QED
        BY <3>1, <3>2, <3>3
    <2>2. ASSUME NEW p \in Id, NEW i \in 1 .. Len(K[p]), NEW j \in 1 .. Len(es)
          PROVE  K[p][i] # es[j]
      <3>1. CASE j \in 1 .. Len(ds)
        BY <1>1, <1>4, <3>1 DEF RootsApart
      <3>2. CASE j \notin 1 .. Len(ds)
        BY <1>3, <1>4, <1>5, <3>2
      <3> QED
        BY <3>1, <3>2
    <2> QED
      BY <1>4, <2>1, <2>2 DEF RootsApart
  <1>7. ASSUME NEW x PROVE Placed(K, es, x) <=> Placed(K, ds, x) \/ x = r
    <2>1. (\E i \in 1 .. Len(es) : es[i] = x) <=> x = r \/ \E i \in 1 .. Len(ds) : ds[i] = x
      <3>1. Len(es) \in 1 .. Len(es) /\ \A i \in 1 .. Len(ds) : i \in 1 .. Len(es)
        BY <1>3, <1>4
      <3>2. \A i \in 1 .. Len(es) : i = Len(es) \/ i \in 1 .. Len(ds)
        BY <1>3, <1>4
      <3> QED
        BY <1>4, <3>1, <3>2
    <2> QED
      BY <2>1 DEF Placed
  <1>8. Marked(N, L, K, es, gone)
    <2> SUFFICES ASSUME NEW x \in L
                 PROVE  /\ N[x].att => Placed(K, es, x)
                        /\ Placed(K, es, x) => N[x].att \/ x \in Start.parsed
                        /\ Placed(K, es, x) \/ x \in gone \/ N[x].next = NIL
      BY DEF Marked
    <2>1. /\ n[x].att => Placed(K, ds, x)
          /\ Placed(K, ds, x) => n[x].att \/ x \in Start.parsed
          /\ Placed(K, ds, x) \/ x \in gone \/ n[x].next = NIL
      BY <1>1 DEF Marked
    <2>2. N[x].next = n[x].next /\ (x = r => N[x].att = TRUE) /\ (x # r => N[x].att = n[x].att)
      OBVIOUS
    <2> QED
      BY <1>7, <2>1, <2>2
  <1> QED
    BY <1>2, <1>6, <1>8 DEF Kept, es

-----------------------------------------------------------------------------
(* Pairs.                                                                  *)

\* n and N tell the same of x as a key.
SameKey(n, N, x) == N[x].kind = n[x].kind /\ N[x].value = n[x].value

\* Halves come in turn.
LEMMA Parity ==
  ASSUME NEW a \in Nat
  PROVE  /\ a % 2 \in {0, 1}
         /\ (a + 2) % 2 = a % 2
         /\ (a + 1) % 2 = 1 - (a % 2)
  OBVIOUS

\* Only the kinds and texts of the entries matter.
LEMMA PairedSame ==
  ASSUME NEW n, NEW N, NEW s, Paired(n, s), \A i \in 1 .. Len(s) : SameKey(n, N, s[i])
  PROVE  Paired(N, s)
  <1>1. ASSUME NEW i \in 1 .. Len(s), NEW j \in 1 .. Len(s),
               i % 2 = 1, j % 2 = 1, i < j, N[s[j]].kind = "scalar"
        PROVE  N[s[i]].value # N[s[j]].value
    <2>1. SameKey(n, N, s[i]) /\ SameKey(n, N, s[j])
      OBVIOUS
    <2>2. n[s[i]].value # n[s[j]].value
      BY <1>1, <2>1 DEF Paired, SameKey
    <2> QED
      BY <2>1, <2>2 DEF SameKey
  <1> QED
    BY <1>1 DEF Paired

\* A new pair goes to the end, under a text no key has.
LEMMA PairedAppend ==
  ASSUME NEW n, NEW N, NEW S, NEW s \in Seq(S), NEW k \in S, NEW v \in S, Paired(n, s),
         \A i \in 1 .. Len(s) : SameKey(n, N, s[i]),
         \A i \in 1 .. Len(s) : i % 2 = 1 => N[s[i]].value # N[k].value
  PROVE  Paired(N, Append(Append(s, k), v))
  <1> DEFINE t == Append(Append(s, k), v)
             l == Len(s)
  <1>1. Paired(N, s)
    BY PairedSame
  <1>2. l \in Nat /\ l % 2 = 0 /\ (l + 2) % 2 = 0
    <2>1. l \in Nat /\ l % 2 = 0
      BY DEF Paired
    <2> HIDE DEF l
    <2> QED
      BY <2>1, Parity
  <1>3. /\ Len(t) = l + 2 /\ t[l + 1] = k /\ \A i \in 1 .. l : t[i] = s[i]
    BY <1>2
  <1>4. (l + 2) % 2 # 1 /\ (l + 1) % 2 = 1
    <2> HIDE DEF l
    <2> QED
      BY <1>2, Parity
  <1>5. \A i, j \in 1 .. l : i % 2 = 1 /\ j % 2 = 1 /\ i < j /\ N[s[j]].kind = "scalar"
          => N[s[i]].value # N[s[j]].value
    BY <1>1 DEF Paired
  <1>6. \A i \in 1 .. l : i % 2 = 1 => N[s[i]].value # N[k].value
    OBVIOUS
  <1> HIDE DEF t, l
  <1>7. ASSUME NEW i \in 1 .. Len(t), NEW j \in 1 .. Len(t),
               i % 2 = 1, j % 2 = 1, i < j, N[t[j]].kind = "scalar"
        PROVE  N[t[i]].value # N[t[j]].value
    <2>1. j # l + 2 /\ i # l + 2
      BY <1>4, <1>7
    <2>2. CASE j = l + 1
      <3>1. i \in 1 .. l /\ t[i] = s[i] /\ t[j] = k
        BY <1>2, <1>3, <1>7, <2>2
      <3> QED
        BY <1>6, <1>7, <3>1
    <2>3. CASE j # l + 1
      <3>1. i \in 1 .. l /\ j \in 1 .. l
        BY <1>2, <1>3, <1>7, <2>1, <2>3
      <3>2. t[i] = s[i] /\ t[j] = s[j]
        BY <1>3, <3>1
      <3> QED
        BY <1>5, <1>7, <3>1, <3>2
    <2> QED
      BY <2>2, <2>3
  <1> QED
    BY <1>2, <1>3, <1>7 DEF Paired, t

\* A new value takes the place of an old one.
LEMMA PairedReplace ==
  ASSUME NEW n, NEW N, NEW S, NEW s \in Seq(S), NEW i \in 1 .. Len(s), i % 2 = 0, NEW v \in S,
         Paired(n, s), \A j \in 1 .. Len(s) : SameKey(n, N, s[j])
  PROVE  Paired(N, [s EXCEPT ![i] = v])
  <1> DEFINE t == [s EXCEPT ![i] = v]
  <1>1. Paired(N, s)
    BY PairedSame
  <1>2. Len(t) = Len(s) /\ \A j \in 1 .. Len(s) : j # i => t[j] = s[j]
    OBVIOUS
  <1> HIDE DEF t
  <1>3. ASSUME NEW a \in 1 .. Len(t), NEW b \in 1 .. Len(t),
               a % 2 = 1, b % 2 = 1, a < b, N[t[b]].kind = "scalar"
        PROVE  N[t[a]].value # N[t[b]].value
    <2>1. a # i /\ b # i
      BY <1>3
    <2>2. t[a] = s[a] /\ t[b] = s[b] /\ a \in 1 .. Len(s) /\ b \in 1 .. Len(s)
      BY <1>2, <2>1
    <2> QED
      BY <1>1, <1>3, <2>2 DEF Paired
  <1>4. Len(t) % 2 = 0
    BY <1>1, <1>2 DEF Paired
  <1> QED
    BY <1>3, <1>4 DEF Paired, t

\* A key goes with its value.
LEMMA PairedWithout ==
  ASSUME NEW n, NEW N, NEW S, NEW s \in Seq(S), NEW i \in 1 .. Len(s), i + 1 <= Len(s),
         Paired(n, s), \A j \in 1 .. Len(s) : SameKey(n, N, s[j])
  PROVE  Paired(N, Without(Without(s, i), i))
  <1> DEFINE u == Without(s, i)
             t == Without(u, i)
             l == Len(s)
  <1>1. Paired(N, s)
    BY PairedSame
  <1>2. /\ u \in Seq(S) /\ Len(u) = l - 1 /\ l \in Nat /\ i \in 1 .. Len(u)
        /\ \A j \in 1 .. (l - 1) : u[j] = IF j < i THEN s[j] ELSE s[j + 1]
    BY WithoutIs
  <1> HIDE DEF u
  <1>3. /\ Len(t) = l - 2
        /\ \A j \in 1 .. (l - 2) : t[j] = IF j < i THEN u[j] ELSE u[j + 1]
    <2>0. u \in Seq(S) /\ i \in 1 .. Len(u)
      BY <1>2
    <2>1. /\ Len(t) = Len(u) - 1
          /\ \A j \in 1 .. (Len(u) - 1) : t[j] = IF j < i THEN u[j] ELSE u[j + 1]
      BY <2>0, WithoutIs, Zenon
    <2> HIDE DEF t, l
    <2>2. Len(u) - 1 = l - 2
      BY <1>2
    <2> QED
      BY <2>1, <2>2
  <1> DEFINE f(j) == IF j < i THEN j ELSE j + 2
  <1>4. l \in Nat /\ i \in 1 .. l /\ i + 1 <= l /\ l % 2 = 0
    BY <1>1, <1>2 DEF Paired
  <1> HIDE DEF t, l
  <1>5. ASSUME NEW j \in 1 .. Len(t)
        PROVE  f(j) \in 1 .. l /\ t[j] = s[f(j)] /\ f(j) % 2 = j % 2
    <2>1. CASE j < i
      <3>1. j \in 1 .. (l - 2) /\ j \in 1 .. (l - 1) /\ j \in 1 .. l /\ f(j) = j
        BY <1>3, <1>4, <2>1
      <3>2. t[j] = u[j] /\ u[j] = s[j]
        BY <1>2, <1>3, <2>1, <3>1
      <3> QED
        BY <3>1, <3>2
    <2>2. CASE j >= i
      <3>1. j \in 1 .. (l - 2) /\ j + 1 \in 1 .. (l - 1) /\ ~(j < i) /\ ~(j + 1 < i)
        BY <1>3, <1>4, <2>2
      <3>2. t[j] = u[j + 1] /\ u[j + 1] = s[(j + 1) + 1]
        BY <1>2, <1>3, <3>1
      <3>3. (j + 1) + 1 = f(j) /\ f(j) \in 1 .. l /\ f(j) = j + 2
        BY <1>4, <3>1
      <3>4. (j + 2) % 2 = j % 2
        BY Parity
      <3> QED
        BY <3>2, <3>3, <3>4
    <2> QED
      BY <1>4, <2>1, <2>2
  <1>6. ASSUME NEW a \in 1 .. Len(t), NEW b \in 1 .. Len(t),
               a % 2 = 1, b % 2 = 1, a < b, N[t[b]].kind = "scalar"
        PROVE  N[t[a]].value # N[t[b]].value
    <2>1. f(a) \in 1 .. l /\ t[a] = s[f(a)] /\ f(a) % 2 = 1
      BY <1>5, <1>6
    <2>2. f(b) \in 1 .. l /\ t[b] = s[f(b)] /\ f(b) % 2 = 1
      BY <1>5, <1>6
    <2>3. f(a) < f(b)
      BY <1>4, <1>6
    <2> HIDE DEF f
    <2> QED
      BY <1>1, <1>6, <2>1, <2>2, <2>3 DEF Paired, l
  <1>7. Len(t) % 2 = 0
    <2>1. l - 2 \in Nat /\ l = (l - 2) + 2
      BY <1>4
    <2>2. (l - 2) % 2 = 0
      <3> DEFINE h == l - 2
      <3>1. h \in Nat /\ l = h + 2
        BY <2>1
      <3> HIDE DEF h
      <3>2. h % 2 = l % 2
        BY <3>1, Parity
      <3> QED
        BY <1>4, <3>2 DEF h
    <2> QED
      BY <1>3, <2>2
  <1> QED
    BY <1>6, <1>7 DEF Paired, t, u

-----------------------------------------------------------------------------
(* From edits of lists to steps of the document.                           *)

\* The lists that the walks find are the ones that the links spell out.
LEMMA ListsAre ==
  ASSUME NEW n \in [Id -> DNode], NEW nc \in 0 .. MaxNodes, NEW K, Sound(n, 0 .. (nc - 1), K)
  PROVE  Lists(n, nc) = K
  <1> DEFINE L == 0 .. (nc - 1)
  <1>1. L \in SUBSET Id /\ \A p \in Id : p < nc <=> p \in L
    BY DEF Id
  <1> HIDE DEF L
  <1>2. Sound(n, L, K)
    BY DEF L
  <1>3. ASSUME NEW p \in Id PROVE K[p] = IF p < nc THEN ChildSeq(n, p) ELSE << >>
    <2>1. CASE p \in L
      <3>1. ChildSeq(n, p) = K[p]
        BY <1>1, <1>2, <2>1, SoundWalk
      <3> QED
        BY <1>1, <2>1, <3>1
    <2>2. CASE p \notin L
      BY <1>1, <1>2, <2>2 DEF Sound
    <2> QED
      BY <2>1, <2>2
  <1>4. K \in [Id -> Seq(L)]
    BY <1>2 DEF Sound
  <1> QED
    BY <1>3, <1>4 DEF Lists

AllPaired(n, L, K) == \A m \in L : n[m].kind = "map" => Paired(n, K[m])

\* A document is whole when some lists fit its links, roots and marks.
LEMMA WholeBy ==
  ASSUME NEW n \in [Id -> DNode], NEW nc \in 0 .. MaxNodes, NEW K, NEW ds, NEW gone,
         Kept(n, 0 .. (nc - 1), K, ds, gone), AllPaired(n, 0 .. (nc - 1), K)
  PROVE  Whole(n, nc, ds, gone) /\ Lists(n, nc) = K
  <1>1. Lists(n, nc) = K
    BY ListsAre DEF Kept
  <1> QED
    BY <1>1 DEF Whole, Kept, AllPaired

\* And a whole document has them.
LEMMA WholeIs ==
  ASSUME DocumentInv
  PROVE  /\ Kept(nodes, Live, Lists(nodes, ncount), docs, displaced)
         /\ AllPaired(nodes, Live, Lists(nodes, ncount))
         /\ nodes \in [Id -> DNode] /\ Live \in SUBSET Id /\ ncount \in 0 .. MaxNodes
  <1>1. nodes \in [Id -> DNode] /\ Live \in SUBSET Id /\ ncount \in 0 .. MaxNodes
    BY DEF DocumentInv, TypeOK, Live, Id
  <1>2. Whole(nodes, ncount, docs, displaced)
    BY DEF DocumentInv
  <1> QED
    BY <1>1, <1>2 DEF Whole, Kept, AllPaired, Live

\* What OrderedTree allows one edit to do to one list.
Spliced(K, ds, old, new) ==
  \E a \in 0 .. Len(old), drop, put \in 0 .. 2 :
    /\ a + drop <= Len(old)
    /\ drop = 0 => a = Len(old)
    /\ drop = 0 \/ put = 0 \/ (drop = 1 /\ put = 1)
    /\ Len(new) = Len(old) - drop + put
    /\ \A i \in 1 .. a : new[i] = old[i]
    /\ \A i \in (a + drop + 1) .. Len(old) : new[i - drop + put] = old[i]
    /\ \A i \in (a + 1) .. (a + put) :
         /\ ~Placed(K, ds, new[i])
         /\ \A j \in (a + 1) .. (a + put) : new[i] = new[j] => i = j

\* Appending one free node,
LEMMA SplicedAppend ==
  ASSUME NEW K, NEW ds, NEW S, NEW s \in Seq(S), NEW c \in S, ~Placed(K, ds, c)
  PROVE  Spliced(K, ds, s, Append(s, c)) /\ Append(s, c) # s
  <1> DEFINE t == Append(s, c)
  <1>1. /\ Len(s) \in Nat /\ Len(t) = Len(s) + 1 /\ t[Len(s) + 1] = c
        /\ \A i \in 1 .. Len(s) : t[i] = s[i]
    OBVIOUS
  <1> HIDE DEF t
  <1>2. Spliced(K, ds, s, t)
    <2> SUFFICES \E a \in 0 .. Len(s), drop, put \in 0 .. 2 :
                   /\ a + drop <= Len(s)
                   /\ drop = 0 => a = Len(s)
                   /\ drop = 0 \/ put = 0 \/ (drop = 1 /\ put = 1)
                   /\ Len(t) = Len(s) - drop + put
                   /\ \A i \in 1 .. a : t[i] = s[i]
                   /\ \A i \in (a + drop + 1) .. Len(s) : t[i - drop + put] = s[i]
                   /\ \A i \in (a + 1) .. (a + put) :
                        /\ ~Placed(K, ds, t[i])
                        /\ \A j \in (a + 1) .. (a + put) : t[i] = t[j] => i = j
      BY DEF Spliced
    <2>1. Len(s) \in 0 .. Len(s) /\ 0 \in 0 .. 2 /\ 1 \in 0 .. 2
      BY <1>1
    <2> WITNESS Len(s) \in 0 .. Len(s), 0 \in 0 .. 2, 1 \in 0 .. 2
    <2>2. \A i \in (Len(s) + 1) .. (Len(s) + 1) : i = Len(s) + 1
      BY <1>1
    <2> QED
      BY <1>1, <2>2
  <1>3. t # s
    BY <1>1
  <1> QED
    BY <1>2, <1>3 DEF t

\* a free key and a free value after it,
LEMMA SplicedPair ==
  ASSUME NEW K, NEW ds, NEW S, NEW s \in Seq(S), NEW k \in S, NEW v \in S, k # v,
         ~Placed(K, ds, k), ~Placed(K, ds, v)
  PROVE  /\ Spliced(K, ds, s, Append(Append(s, k), v))
         /\ Append(Append(s, k), v) # s
  <1> DEFINE t == Append(Append(s, k), v)
  <1>1. /\ Len(s) \in Nat /\ Len(t) = Len(s) + 2 /\ t[Len(s) + 1] = k /\ t[Len(s) + 2] = v
        /\ \A i \in 1 .. Len(s) : t[i] = s[i]
    OBVIOUS
  <1> HIDE DEF t
  <1>2. Spliced(K, ds, s, t)
    <2> SUFFICES \E a \in 0 .. Len(s), drop, put \in 0 .. 2 :
                   /\ a + drop <= Len(s)
                   /\ drop = 0 => a = Len(s)
                   /\ drop = 0 \/ put = 0 \/ (drop = 1 /\ put = 1)
                   /\ Len(t) = Len(s) - drop + put
                   /\ \A i \in 1 .. a : t[i] = s[i]
                   /\ \A i \in (a + drop + 1) .. Len(s) : t[i - drop + put] = s[i]
                   /\ \A i \in (a + 1) .. (a + put) :
                        /\ ~Placed(K, ds, t[i])
                        /\ \A j \in (a + 1) .. (a + put) : t[i] = t[j] => i = j
      BY DEF Spliced
    <2>1. Len(s) \in 0 .. Len(s) /\ 0 \in 0 .. 2 /\ 2 \in 0 .. 2
      BY <1>1
    <2> WITNESS Len(s) \in 0 .. Len(s), 0 \in 0 .. 2, 2 \in 0 .. 2
    <2>2. \A i \in (Len(s) + 1) .. (Len(s) + 2) : i = Len(s) + 1 \/ i = Len(s) + 2
      BY <1>1
    <2> QED
      BY <1>1, <2>2
  <1>3. t # s
    BY <1>1
  <1> QED
    BY <1>2, <1>3 DEF t

\* a free node in place of another,
LEMMA SplicedReplace ==
  ASSUME NEW K, NEW ds, NEW S, NEW s \in Seq(S), NEW i \in 1 .. Len(s), NEW v \in S, s[i] # v,
         ~Placed(K, ds, v)
  PROVE  Spliced(K, ds, s, [s EXCEPT ![i] = v]) /\ [s EXCEPT ![i] = v] # s
  <1> DEFINE t == [s EXCEPT ![i] = v]
  <1>1. /\ Len(s) \in Nat /\ i \in Nat /\ Len(t) = Len(s) /\ t[i] = v
        /\ \A j \in 1 .. Len(s) : j # i => t[j] = s[j]
    OBVIOUS
  <1> HIDE DEF t
  <1>2. Spliced(K, ds, s, t)
    <2> SUFFICES \E a \in 0 .. Len(s), drop, put \in 0 .. 2 :
                   /\ a + drop <= Len(s)
                   /\ drop = 0 => a = Len(s)
                   /\ drop = 0 \/ put = 0 \/ (drop = 1 /\ put = 1)
                   /\ Len(t) = Len(s) - drop + put
                   /\ \A j \in 1 .. a : t[j] = s[j]
                   /\ \A j \in (a + drop + 1) .. Len(s) : t[j - drop + put] = s[j]
                   /\ \A j \in (a + 1) .. (a + put) :
                        /\ ~Placed(K, ds, t[j])
                        /\ \A h \in (a + 1) .. (a + put) : t[j] = t[h] => j = h
      BY DEF Spliced
    <2>1. i - 1 \in 0 .. Len(s) /\ 1 \in 0 .. 2
      BY <1>1
    <2> WITNESS i - 1 \in 0 .. Len(s), 1 \in 0 .. 2, 1 \in 0 .. 2
    <2>2. \A j \in (i - 1 + 1) .. (i - 1 + 1) : j = i
      BY <1>1
    <2>3. \A j \in (i - 1 + 1 + 1) .. Len(s) : j - 1 + 1 = j /\ j # i /\ j \in 1 .. Len(s)
      BY <1>1
    <2>4. \A j \in 1 .. (i - 1) : j # i /\ j \in 1 .. Len(s)
      BY <1>1
    <2> QED
      BY <1>1, <2>2, <2>3, <2>4
  <1>3. t # s
    BY <1>1
  <1> QED
    BY <1>2, <1>3 DEF t

\* one node out,
LEMMA SplicedOut ==
  ASSUME NEW K, NEW ds, NEW S, NEW s \in Seq(S), NEW i \in 1 .. Len(s)
  PROVE  Spliced(K, ds, s, Without(s, i)) /\ Without(s, i) # s
  <1> DEFINE t == Without(s, i)
  <1>0. /\ Len(t) = Len(s) - 1
        /\ \A j \in 1 .. (Len(s) - 1) : t[j] = IF j < i THEN s[j] ELSE s[j + 1]
    BY WithoutIs, Zenon
  <1>1. Len(s) \in Nat /\ i \in Nat
    OBVIOUS
  <1> HIDE DEF t
  <1>2. Spliced(K, ds, s, t)
    <2> SUFFICES \E a \in 0 .. Len(s), drop, put \in 0 .. 2 :
                   /\ a + drop <= Len(s)
                   /\ drop = 0 => a = Len(s)
                   /\ drop = 0 \/ put = 0 \/ (drop = 1 /\ put = 1)
                   /\ Len(t) = Len(s) - drop + put
                   /\ \A j \in 1 .. a : t[j] = s[j]
                   /\ \A j \in (a + drop + 1) .. Len(s) : t[j - drop + put] = s[j]
                   /\ \A j \in (a + 1) .. (a + put) :
                        /\ ~Placed(K, ds, t[j])
                        /\ \A h \in (a + 1) .. (a + put) : t[j] = t[h] => j = h
      BY DEF Spliced
    <2>1. i - 1 \in 0 .. Len(s) /\ 1 \in 0 .. 2 /\ 0 \in 0 .. 2
      BY <1>1
    <2> WITNESS i - 1 \in 0 .. Len(s), 1 \in 0 .. 2, 0 \in 0 .. 2
    <2>2. \A j \in (i - 1 + 1 + 1) .. Len(s) :
            j - 1 + 0 = j - 1 /\ j - 1 \in 1 .. (Len(s) - 1) /\ ~(j - 1 < i) /\ (j - 1) + 1 = j
      BY <1>1
    <2>3. \A j \in 1 .. (i - 1) : j < i /\ j \in 1 .. (Len(s) - 1)
      BY <1>1
    <2> QED
      BY <1>0, <1>1, <2>2, <2>3
  <1>3. t # s
    BY <1>0, <1>1
  <1> QED
    BY <1>2, <1>3 DEF t

\* or a key and its value.
LEMMA SplicedPairOut ==
  ASSUME NEW K, NEW ds, NEW S, NEW s \in Seq(S), NEW i \in 1 .. Len(s), i + 1 <= Len(s)
  PROVE  /\ Spliced(K, ds, s, Without(Without(s, i), i))
         /\ Without(Without(s, i), i) # s
  <1> DEFINE u == Without(s, i)
             t == Without(u, i)
  <1>1. /\ Len(s) \in Nat /\ i \in Nat /\ u \in Seq(S) /\ Len(u) = Len(s) - 1
        /\ \A j \in 1 .. (Len(s) - 1) : u[j] = IF j < i THEN s[j] ELSE s[j + 1]
    BY WithoutIs
  <1> HIDE DEF u
  <1>2. i \in 1 .. Len(u)
    BY <1>1
  <1>3. /\ Len(t) = Len(u) - 1
        /\ \A j \in 1 .. (Len(u) - 1) : t[j] = IF j < i THEN u[j] ELSE u[j + 1]
    BY <1>1, <1>2, WithoutIs, Zenon
  <1> HIDE DEF t
  <1>4. \A j \in 1 .. (Len(s) - 2) : t[j] = IF j < i THEN s[j] ELSE s[j + 2]
    BY <1>1, <1>3
  <1>5. Spliced(K, ds, s, t)
    <2> SUFFICES \E a \in 0 .. Len(s), drop, put \in 0 .. 2 :
                   /\ a + drop <= Len(s)
                   /\ drop = 0 => a = Len(s)
                   /\ drop = 0 \/ put = 0 \/ (drop = 1 /\ put = 1)
                   /\ Len(t) = Len(s) - drop + put
                   /\ \A j \in 1 .. a : t[j] = s[j]
                   /\ \A j \in (a + drop + 1) .. Len(s) : t[j - drop + put] = s[j]
                   /\ \A j \in (a + 1) .. (a + put) :
                        /\ ~Placed(K, ds, t[j])
                        /\ \A h \in (a + 1) .. (a + put) : t[j] = t[h] => j = h
      BY DEF Spliced
    <2>1. i - 1 \in 0 .. Len(s) /\ 2 \in 0 .. 2 /\ 0 \in 0 .. 2
      BY <1>1
    <2> WITNESS i - 1 \in 0 .. Len(s), 2 \in 0 .. 2, 0 \in 0 .. 2
    <2>2. \A j \in (i - 1 + 2 + 1) .. Len(s) :
            j - 2 + 0 = j - 2 /\ j - 2 \in 1 .. (Len(s) - 2) /\ ~(j - 2 < i) /\ (j - 2) + 2 = j
      BY <1>1
    <2>3. \A j \in 1 .. (i - 1) : j < i /\ j \in 1 .. (Len(s) - 2)
      BY <1>1
    <2> QED
      BY <1>1, <1>3, <1>4, <2>2, <2>3
  <1>6. t # s
    BY <1>1, <1>3
  <1> QED
    BY <1>5, <1>6 DEF t, u

\* Ranges of ids nest as their ends do.
LEMMA RangesNest ==
  ASSUME NEW a \in 0 .. MaxNodes, NEW b \in 0 .. MaxNodes, a <= b
  PROVE  0 .. (b - 1) \in SUBSET Id /\ 0 .. (a - 1) \subseteq 0 .. (b - 1)
  BY MaxNodesAssumption DEF Id

\* Node ids are never given back.
LEMMA LiveGrows ==
  ASSUME TypeOK, TypeOK', ncount <= ncount'
  PROVE  Live' \in SUBSET Id /\ Live \subseteq Live'
  <1>1. ncount \in 0 .. MaxNodes /\ ncount' \in 0 .. MaxNodes
    BY DEF TypeOK
  <1>2. Live' = 0 .. (ncount' - 1) /\ Live = 0 .. (ncount - 1)
    BY DEF Live
  <1>3. 0 .. (ncount' - 1) \in SUBSET Id /\ 0 .. (ncount - 1) \subseteq 0 .. (ncount' - 1)
    BY <1>1, RangesNest
  <1> QED
    BY <1>2, <1>3, Zenon

\* Such an edit is a step of OrderedTree.
LEMMA TreeEdit ==
  ASSUME TypeOK, TypeOK', NEW K, Lists(nodes, ncount) = K, NEW p \in Live, NEW s \in Seq(Live'),
         K \in [Id -> Seq(Live)], docs \in Seq(Live),
         Lists(nodes, ncount)' = [K EXCEPT ![p] = s], s # K[p],
         ncount <= ncount', docs' = docs, Spliced(K, docs, K[p], s)
  PROVE  Tree!Edit(p)
  <1> DEFINE J == [K EXCEPT ![p] = s]
  <1>1. p \in Id /\ J[p] = s
    BY DEF TypeOK, Live, Id
  <1>2. Live' \in SUBSET Id /\ Live \subseteq Live'
    BY LiveGrows
  <1>3. ASSUME NEW c, ~Placed(K, docs, c) PROVE Tree!Free(c) \/ c \notin Live
    <2>1. ASSUME NEW q \in Id PROVE c \notin Tree!Elems(K[q])
      <3>1. DOMAIN K[q] = 1 .. Len(K[q])
        BY <2>1
      <3> QED
        BY <1>3, <3>1 DEF Placed, Tree!Elems
    <2>2. c \notin Tree!Elems(docs)
      <3>1. DOMAIN docs = 1 .. Len(docs)
        OBVIOUS
      <3> QED
        BY <1>3, <3>1 DEF Placed, Tree!Elems
    <2> QED
      BY <2>1, <2>2 DEF Tree!Free
  <1>4. PICK a \in 0 .. Len(K[p]), drop \in 0 .. 2, put \in 0 .. 2 :
          /\ a + drop <= Len(K[p])
          /\ drop = 0 => a = Len(K[p])
          /\ drop = 0 \/ put = 0 \/ (drop = 1 /\ put = 1)
          /\ Len(s) = Len(K[p]) - drop + put
          /\ \A i \in 1 .. a : s[i] = K[p][i]
          /\ \A i \in (a + drop + 1) .. Len(K[p]) : s[i - drop + put] = K[p][i]
          /\ \A i \in (a + 1) .. (a + put) :
               /\ ~Placed(K, docs, s[i])
               /\ \A j \in (a + 1) .. (a + put) : s[i] = s[j] => i = j
    BY DEF Spliced
  <1>5. \A i \in (a + 1) .. (a + put) :
          /\ Tree!Free(s[i]) \/ s[i] \notin Live
          /\ \A j \in (a + 1) .. (a + put) : s[i] = s[j] => i = j
    BY <1>3, <1>4
  <1> DEFINE old == Lists(nodes, ncount)[p]
             new == Lists(nodes, ncount)'[p]
  <1>6. old = K[p] /\ new = s /\ new # old /\ new \in Seq(Live')
    BY <1>1
  <1>7. Lists(nodes, ncount)' = [Lists(nodes, ncount) EXCEPT ![p] = new]
    BY <1>6
  <1> HIDE DEF old, new
  <1>8. \E b \in 0 .. Len(old), d, e \in 0 .. 2 :
          /\ b + d <= Len(old)
          /\ d = 0 => b = Len(old)
          /\ d = 0 \/ e = 0 \/ (d = 1 /\ e = 1)
          /\ Len(new) = Len(old) - d + e
          /\ \A i \in 1 .. b : new[i] = old[i]
          /\ \A i \in (b + d + 1) .. Len(old) : new[i - d + e] = old[i]
          /\ \A i \in (b + 1) .. (b + e) :
               /\ Tree!Free(new[i]) \/ new[i] \notin Live
               /\ \A j \in (b + 1) .. (b + e) : new[i] = new[j] => i = j
    <2>1. a \in 0 .. Len(old)
      BY <1>6
    <2> WITNESS a \in 0 .. Len(old), drop \in 0 .. 2, put \in 0 .. 2
    <2> QED
      BY <1>4, <1>5, <1>6
  <1> QED
    BY <1>2, <1>6, <1>7, <1>8, Zenon DEF Tree!Edit, Tree!Splice, old, new

\* What a list of a document in use is.
LEMMA ListIs ==
  ASSUME NEW n, NEW nc \in 0 .. MaxNodes, NEW q \in 0 .. (nc - 1)
  PROVE  Lists(n, nc)[q] = ChildSeq(n, q) /\ q \in Id
  <1>1. q \in Id /\ q < nc
    BY MaxNodesAssumption DEF Id
  <1> QED
    BY <1>1 DEF Lists

\* Mappings stay paired when one list is edited and nodes are made.
LEMMA AllPairedAfter ==
  ASSUME NEW n, NEW N, NEW L \in SUBSET Id, NEW M \in SUBSET Id, NEW K \in [Id -> Seq(L)],
         \A q \in Id \ L : K[q] = << >>, AllPaired(n, L, K), NEW p \in L, NEW s,
         \A x \in L : SameKey(n, N, x), n[p].kind = "map" => Paired(N, s)
  PROVE  AllPaired(N, M, [K EXCEPT ![p] = s])
  <1> DEFINE J == [K EXCEPT ![p] = s]
  <1> SUFFICES ASSUME NEW m \in M, N[m].kind = "map" PROVE Paired(N, J[m])
    BY DEF AllPaired
  <1>1. m \in Id /\ J[p] = s /\ (m # p => J[m] = K[m])
    OBVIOUS
  <1> HIDE DEF J
  <1>2. CASE m = p
    <2>1. n[p].kind = "map"
      BY <1>2 DEF SameKey
    <2> QED
      BY <1>1, <1>2, <2>1
  <1>3. CASE m # p /\ m \in L
    <2>1. n[m].kind = "map" /\ Paired(n, K[m])
      BY <1>3 DEF SameKey, AllPaired
    <2>2. \A i \in 1 .. Len(K[m]) : SameKey(n, N, K[m][i])
      <3>1. K[m] \in Seq(L)
        BY <1>1
      <3>2. \A i \in 1 .. Len(K[m]) : K[m][i] \in L
        BY <3>1
      <3> QED
        BY <3>2
    <2> QED
      BY <1>1, <1>3, <2>1, <2>2, PairedSame
  <1>4. CASE m # p /\ m \notin L
    <2>1. J[m] = << >>
      BY <1>1, <1>4
    <2> QED
      BY <2>1 DEF Paired
  <1> QED
    BY <1>2, <1>3, <1>4

\* A call edits the child list of p alone, as OrderedTree allows, and leaves
\* the document whole.
Edited(p) ==
  /\ p \in Live
  /\ DocumentInv'
  /\ Tree!Edit(p)
  /\ Live \subseteq Live'
  /\ \A q \in Live \ {p} : ChildSeq(nodes', q) = ChildSeq(nodes, q)
  /\ \A x \in Live : SameKey(nodes, nodes', x)

\* A call whose new links spell the old lists with one of them spliced is an edit of that list.
LEMMA EditStep ==
  ASSUME DocumentInv, TypeOK', NEW K, Lists(nodes, ncount) = K, NEW p \in Live, NEW s,
         Kept(nodes', 0 .. (ncount' - 1), [K EXCEPT ![p] = s], docs', displaced'),
         \A x \in Live : SameKey(nodes, nodes', x),
         nodes[p].kind = "map" => Paired(nodes', s),
         Spliced(K, docs, K[p], s), s # K[p], ncount <= ncount', docs' = docs
  PROVE  Edited(p) /\ Lists(nodes', ncount') = [K EXCEPT ![p] = s]
  <1> DEFINE J == [K EXCEPT ![p] = s]
             M == 0 .. (ncount' - 1)
  <1>1. /\ Kept(nodes, Live, K, docs, displaced) /\ AllPaired(nodes, Live, K)
        /\ Live \in SUBSET Id /\ ncount \in 0 .. MaxNodes
    BY WholeIs
  <1>2. /\ K \in [Id -> Seq(Live)] /\ docs \in Seq(Live)
        /\ \A q \in Id \ Live : K[q] = << >>
    BY <1>1 DEF Kept, Sound, RootsApart
  <1>3. TypeOK
    BY DEF DocumentInv
  <1>4. nodes' \in [Id -> DNode] /\ ncount' \in 0 .. MaxNodes
    BY DEF TypeOK
  <1>5. Live' = M /\ Live' \in SUBSET Id /\ Live \subseteq Live'
    <2>1. Live' = M
      BY DEF Live
    <2> QED
      BY <1>3, <2>1, LiveGrows, Zenon
  <1>6. AllPaired(nodes', M, J)
    <2>1. M \in SUBSET Id
      BY <1>5
    <2> HIDE DEF M
    <2> QED
      BY <1>1, <1>2, <2>1, AllPairedAfter
  <1>7. Whole(nodes', ncount', docs', displaced') /\ Lists(nodes', ncount') = J
    BY <1>4, <1>6, WholeBy
  <1>8. DocumentInv'
    BY <1>7 DEF DocumentInv
  <1>9. s \in Seq(Live')
    <2>1. J \in [Id -> Seq(M)]
      BY DEF Kept, Sound
    <2>2. p \in Id /\ J[p] = s
      BY <1>1, <1>2
    <2> HIDE DEF M, J
    <2> QED
      BY <1>5, <2>1, <2>2
  <1>10. Tree!Edit(p)
    BY <1>2, <1>3, <1>7, <1>9, TreeEdit
  <1>11. ASSUME NEW q \in Live \ {p} PROVE ChildSeq(nodes', q) = ChildSeq(nodes, q)
    <2>1. q \in 0 .. (ncount - 1) /\ q \in M
      BY <1>5 DEF Live
    <2>2. K[q] = ChildSeq(nodes, q) /\ q \in Id
      BY <1>1, <2>1, ListIs
    <2>3. J[q] = ChildSeq(nodes', q)
      BY <1>4, <1>7, <2>1, ListIs
    <2> QED
      BY <1>2, <2>2, <2>3
  <1> QED
    BY <1>5, <1>7, <1>8, <1>10, <1>11 DEF Edited

-----------------------------------------------------------------------------
(* What the calls find, and which nodes they may take in.                  *)

\* The outcome of map_find: no key of that text, or one of them.
Found(n, s, key, k) ==
  \/ k = NIL /\ \A i \in 1 .. Len(s) : i % 2 = 1 => n[s[i]].value # key
  \/ \E i \in 1 .. Len(s) : k = s[i] /\ i % 2 = 1 /\ n[s[i]].value = key

\* map_find returns the node of a key position with that key, or NIL when there is none.
LEMMA FindIs ==
  ASSUME NEW n, NEW m, NEW S, NEW s \in Seq(S), ChildSeq(n, m) = s, NEW key
  PROVE  Found(n, s, key, map_find(n, m, key))
  <1> DEFINE hits == {i \in DOMAIN s : i % 2 = 1 /\ n[s[i]].value = key}
  <1>1. map_find(n, m, key)
          = IF hits = {} THEN NIL ELSE s[CHOOSE i \in hits : \A j \in hits : i <= j]
    BY DEF map_find
  <1>2. DOMAIN s = 1 .. Len(s) /\ Len(s) \in Nat
    OBVIOUS
  <1>3. CASE hits = {}
    BY <1>1, <1>2, <1>3 DEF Found
  <1>4. CASE hits # {}
    <2>1. hits \in SUBSET Nat
      BY <1>2
    <2>2. \E i \in hits : \A j \in hits : i <= j
      BY <1>4, <2>1, LeastNat
    <2>3. PICK i \in hits : i = CHOOSE x \in hits : \A j \in hits : x <= j
      BY <2>2
    <2>4. map_find(n, m, key) = s[i]
      BY <1>1, <1>4, <2>3
    <2>5. i \in 1 .. Len(s) /\ i % 2 = 1 /\ n[s[i]].value = key
      BY <1>2
    <2> QED
      BY <2>4, <2>5 DEF Found
  <1> QED
    BY <1>3, <1>4

\* The host takes care of what the code does not: it attaches neither a
\* value that map_set displaced, nor a node that the parser placed, nor one
\* node twice in a pair.
Careful == "reuse" \notin Liberties /\ "sharedkey" \notin Liberties /\ "parsed" \notin Liberties

\* A node that the attached bit does not hold back is free and ends no chain.
LEMMA FreeNode ==
  ASSUME DocumentInv, NEW v \in Live, ~nodes[v].att, v \notin Start.parsed, v \notin displaced
  PROVE  /\ ~Placed(Lists(nodes, ncount), docs, v) /\ nodes[v].next = NIL
  BY WholeIs DEF Kept, Marked

\* A node that mut_attach_ok accepts from a careful host has no place and no sibling link.
LEMMA AttachFree ==
  ASSUME DocumentInv, Careful, NEW p, NEW v \in Live, mut_attach_ok(nodes, ncount, p, v),
         HostMayAttach(p, v)
  PROVE  /\ ~Placed(Lists(nodes, ncount), docs, v) /\ nodes[v].next = NIL
         /\ v \notin displaced
  <1>1. ~nodes[v].att
    BY DEF mut_attach_ok, Attached
  <1>2. v \notin Start.parsed /\ v \notin displaced
    BY DEF HostMayAttach, Careful
  <1> QED
    BY <1>1, <1>2, FreeNode

\* The list of a node in use.
LEMMA KidsOf ==
  ASSUME DocumentInv, NEW p \in Live, NEW K, Lists(nodes, ncount) = K
  PROVE  /\ ListOf(nodes, Live, p, K[p]) /\ ChildSeq(nodes, p) = K[p]
         /\ nodes[p].count = Len(K[p]) /\ p \in Id
  <1>1. Sound(nodes, Live, K) /\ nodes \in [Id -> DNode] /\ Live \in SUBSET Id
    BY WholeIs DEF Kept
  <1>2. ListOf(nodes, Live, p, K[p]) /\ ChildSeq(nodes, p) = K[p]
    BY <1>1, SoundList, SoundWalk
  <1> QED
    BY <1>1, <1>2 DEF ListOf, Spells

-----------------------------------------------------------------------------
(* Each call edits one list.                                               *)

\* Linking, unlinking and replacing leave kinds and texts alone.
LEMMA LinkSameKey ==
  ASSUME NEW n \in [Id -> DNode], NEW p \in Id, NEW c \in Id, NEW x \in Id
  PROVE  SameKey(n, mut_link(n, p, c), x)
  <1> DEFINE N == mut_link(n, p, c)
  <1>1. Linked(n, N, p, c)
    BY LinkFields
  <1> HIDE DEF N
  <1>2. SameKey(n, N, x)
    BY <1>1 DEF Linked, SameKey
  <1> QED
    BY <1>2 DEF N

\* Unlinking changes no kind and no text.
LEMMA UnlinkSameKey ==
  ASSUME NEW n \in [Id -> DNode], NEW p \in Id, NEW c \in Id, CanUnlink(n, p, c), NEW x \in Id
  PROVE  SameKey(n, unlink_child(n, p, c), x)
  <1> DEFINE N == unlink_child(n, p, c)
  <1>1. Unlinked(n, N, p, c, Prev(n, p, c))
    BY UnlinkFields
  <1> HIDE DEF N
  <1>2. SameKey(n, N, x)
    BY <1>1 DEF Unlinked, SameKey
  <1> QED
    BY <1>2 DEF N

\* yeptris_node_seq_add appends.
LEMMA SeqAddEdits ==
  ASSUME DocumentInv, TypeOK', Careful, NEW s \in Live, NEW v \in Live, SeqAdd(s, v)
  PROVE  /\ Edited(s)
         /\ Lists(nodes', ncount') = [Lists(nodes, ncount) EXCEPT ![s] = Append(ChildSeq(nodes, s), v)]
  <1> DEFINE K == Lists(nodes, ncount)
             t == Append(K[s], v)
  <1>1. /\ Kept(nodes, Live, K, docs, displaced) /\ nodes \in [Id -> DNode]
        /\ Live \in SUBSET Id
    BY WholeIs
  <1>2. ~Placed(K, docs, v) /\ nodes[v].next = NIL
    BY AttachFree DEF SeqAdd
  <1>3. K[s] \in Seq(Live) /\ ncount \in Nat /\ ChildSeq(nodes, s) = K[s]
    BY KidsOf DEF ListOf, DocumentInv, TypeOK
  <1> HIDE DEF K
  <1>4. Kept(mut_link(nodes, s, v), Live, [K EXCEPT ![s] = t], docs, displaced)
    BY <1>1, <1>2, LinkKeeps
  <1>5. /\ nodes' = mut_link(nodes, s, v) /\ ncount' = ncount /\ docs' = docs
        /\ displaced' = displaced /\ nodes[s].kind = "seq"
    BY DEF SeqAdd, IsSeq
  <1>6. Kept(nodes', 0 .. (ncount' - 1), [K EXCEPT ![s] = t], docs', displaced')
    BY <1>4, <1>5 DEF Live
  <1>7. \A x \in Live : SameKey(nodes, nodes', x)
    BY <1>1, <1>5, LinkSameKey
  <1>8. Spliced(K, docs, K[s], t) /\ t # K[s]
    BY <1>2, <1>3, SplicedAppend
  <1> HIDE DEF t
  <1>9. ncount <= ncount'
    BY <1>3, <1>5
  <1>10. Edited(s) /\ Lists(nodes', ncount') = [K EXCEPT ![s] = t]
    BY <1>5, <1>6, <1>7, <1>8, <1>9, EditStep DEF K
  <1> QED
    BY <1>3, <1>10 DEF K, t

\* yeptris_node_seq_set replaces one child.
LEMMA SeqSetEdits ==
  ASSUME DocumentInv, TypeOK', Careful, NEW s \in Live, NEW v \in Live,
         NEW index \in 0 .. MaxNodes, SeqSet(s, index, v)
  PROVE  /\ Edited(s)
         /\ Lists(nodes', ncount') = [Lists(nodes, ncount) EXCEPT ![s] = [ChildSeq(nodes, s) EXCEPT ![index + 1] = v]]
  <1> DEFINE K == Lists(nodes, ncount)
             i == index + 1
             t == [K[s] EXCEPT ![i] = v]
  <1>1. /\ Kept(nodes, Live, K, docs, displaced) /\ nodes \in [Id -> DNode]
        /\ Live \in SUBSET Id
    BY WholeIs
  <1>2. ~Placed(K, docs, v)
    BY AttachFree DEF SeqSet
  <1>3. /\ K[s] \in Seq(Live) /\ ncount \in Nat /\ ChildSeq(nodes, s) = K[s]
        /\ nodes[s].count = Len(K[s]) /\ s \in Id
    BY KidsOf DEF ListOf, DocumentInv, TypeOK
  <1> HIDE DEF K
  <1>4. i \in 1 .. Len(K[s]) /\ index < Len(K[s]) /\ nodes[s].kind = "seq"
    BY <1>3 DEF SeqSet, IsSeq
  <1>5. PICK cur \in Id : cur = NthChild(nodes, s, index) /\ nodes' = seq_splice(nodes, s, cur, v)
    BY DEF SeqSet
  <1>6. cur = K[s][i]
    BY <1>3, <1>4, <1>5 DEF NthChild
  <1> HIDE DEF i
  <1>7. cur # v
    BY <1>2, <1>3, <1>4, <1>6 DEF Placed
  <1>8. Replaced(nodes, nodes', s, Prev(nodes, s, cur), cur, v, NIL)
    BY <1>1, <1>3, <1>5, <1>7, SeqSpliceFields
  <1>9. i # 1 => Prev(nodes, s, cur) = K[s][i - 1]
    BY <1>1, <1>4, <1>6, PrevIs DEF Kept
  <1>10. Kept(nodes', Live, [K EXCEPT ![s] = t], docs, displaced)
    BY <1>1, <1>2, <1>4, <1>6, <1>8, <1>9, ReplaceKeeps
  <1>11. ncount' = ncount /\ docs' = docs /\ displaced' = displaced
    BY DEF SeqSet
  <1>12. Kept(nodes', 0 .. (ncount' - 1), [K EXCEPT ![s] = t], docs', displaced')
    BY <1>10, <1>11 DEF Live
  <1>13. \A x \in Live : SameKey(nodes, nodes', x)
    BY <1>1, <1>8 DEF Replaced, SameKey
  <1>14. Spliced(K, docs, K[s], t) /\ t # K[s]
    BY <1>2, <1>3, <1>4, <1>6, <1>7, SplicedReplace
  <1> HIDE DEF t
  <1>15. ncount <= ncount'
    BY <1>3, <1>11
  <1>16. Edited(s) /\ Lists(nodes', ncount') = [K EXCEPT ![s] = t]
    BY <1>4, <1>11, <1>12, <1>13, <1>14, <1>15, EditStep DEF K
  <1> QED
    BY <1>3, <1>16 DEF K, t, i

\* yeptris_node_seq_del takes one child out.
LEMMA SeqDelEdits ==
  ASSUME DocumentInv, TypeOK', NEW s \in Live, NEW index \in 0 .. MaxNodes, SeqDel(s, index)
  PROVE  /\ Edited(s)
         /\ Lists(nodes', ncount') = [Lists(nodes, ncount) EXCEPT ![s] = Without(ChildSeq(nodes, s), index + 1)]
  <1> DEFINE K == Lists(nodes, ncount)
             i == index + 1
             t == Without(K[s], i)
  <1>1. /\ Kept(nodes, Live, K, docs, displaced) /\ nodes \in [Id -> DNode]
        /\ Live \in SUBSET Id
    BY WholeIs
  <1>3. /\ K[s] \in Seq(Live) /\ ncount \in Nat /\ ChildSeq(nodes, s) = K[s]
        /\ nodes[s].count = Len(K[s]) /\ s \in Id
    BY KidsOf DEF ListOf, DocumentInv, TypeOK
  <1> HIDE DEF K
  <1>4. i \in 1 .. Len(K[s]) /\ index < Len(K[s]) /\ nodes[s].kind = "seq"
    BY <1>3 DEF SeqDel, IsSeq
  <1>5. PICK c \in Id : /\ c = NthChild(nodes, s, index) /\ CanUnlink(nodes, s, c)
                        /\ nodes' = unlink_child(nodes, s, c)
    BY DEF SeqDel
  <1>6. c = K[s][i]
    BY <1>3, <1>4, <1>5 DEF NthChild
  <1> HIDE DEF i
  <1>7. Kept(nodes', Live, [K EXCEPT ![s] = t], docs, displaced)
    BY <1>1, <1>4, <1>5, <1>6, UnlinkKeeps
  <1>8. ncount' = ncount /\ docs' = docs /\ displaced' = displaced
    BY DEF SeqDel
  <1>9. Kept(nodes', 0 .. (ncount' - 1), [K EXCEPT ![s] = t], docs', displaced')
    BY <1>7, <1>8 DEF Live
  <1>10. \A x \in Live : SameKey(nodes, nodes', x)
    BY <1>1, <1>3, <1>5, UnlinkSameKey
  <1>11. Spliced(K, docs, K[s], t) /\ t # K[s]
    BY <1>3, <1>4, SplicedOut
  <1> HIDE DEF t
  <1>12. ncount <= ncount'
    BY <1>3, <1>8
  <1>13. Edited(s) /\ Lists(nodes', ncount') = [K EXCEPT ![s] = t]
    BY <1>4, <1>8, <1>9, <1>10, <1>11, <1>12, EditStep DEF K
  <1> QED
    BY <1>3, <1>13 DEF K, t, i

\* An entry that a list and the newcomer are not.
LEMMA AppendMisses ==
  ASSUME NEW S, NEW s \in Seq(S), NEW k \in S, NEW v, k # v, \A j \in 1 .. Len(s) : s[j] # v
  PROVE  \A j \in 1 .. Len(Append(s, k)) : Append(s, k)[j] # v
  OBVIOUS

\* Two links place a key and its value at the end of a mapping.
LEMMA PairKeeps ==
  ASSUME NEW n \in [Id -> DNode], NEW L \in SUBSET Id, NEW K, NEW ds, NEW gone,
         Kept(n, L, K, ds, gone), NEW m \in L, NEW k \in L, NEW v \in L, k # v,
         ~Placed(K, ds, k), ~Placed(K, ds, v), n[k].next = NIL, v \notin gone
  PROVE  /\ Kept(mut_link(mut_link(n, m, k), m, v), L,
                 [K EXCEPT ![m] = Append(Append(K[m], k), v)], ds, gone)
         /\ \A x \in Id : SameKey(n, mut_link(mut_link(n, m, k), m, v), x)
  <1> DEFINE n1 == mut_link(n, m, k)
             s == Append(K[m], k)
             J == [K EXCEPT ![m] = s]
  <1>1. n1 \in [Id -> DNode] /\ m \in Id /\ k \in Id /\ v \in Id
    BY MutLinkType
  <1>2. Kept(n1, L, J, ds, gone)
    BY LinkKeeps
  <1>3. K \in [Id -> Seq(L)] /\ OnePlace(K) /\ RootsApart(L, K, ds) /\ K[m] \in Seq(L)
    BY <1>1 DEF Kept, Sound
  <1>4. ~Placed(J, ds, v)
    <2>1. \A j \in 1 .. Len(s) : s[j] # v
      <3>1. \A j \in 1 .. Len(K[m]) : K[m][j] # v
        BY <1>1 DEF Placed
      <3> QED
        BY <1>3, <3>1, AppendMisses
    <2> HIDE DEF s
    <2>2. ~PlacedBy(K, ds, m, s, v)
      BY <2>1 DEF PlacedBy, Placed
    <2> QED
      BY <1>1, <1>3, <2>2, PlacedAfter
  <1>5. n1[v].next = NIL
    BY <1>2, <1>4 DEF Kept, Marked
  <1>6. SameKey(n, n1, k) /\ \A x \in Id : SameKey(n, n1, x)
    BY <1>1, LinkSameKey
  <1>7. J[m] = s /\ [J EXCEPT ![m] = Append(s, v)] = [K EXCEPT ![m] = Append(s, v)]
    BY <1>1, <1>3
  <1> HIDE DEF n1, J
  <1>8. Kept(mut_link(n1, m, v), L, [J EXCEPT ![m] = Append(J[m], v)], ds, gone)
    BY <1>1, <1>2, <1>4, <1>5, LinkKeeps
  <1>9. \A x \in Id : SameKey(n1, mut_link(n1, m, v), x)
    BY <1>1, LinkSameKey
  <1>10. \A x \in Id : SameKey(n, mut_link(n1, m, v), x)
    BY <1>6, <1>9 DEF SameKey
  <1> QED
    BY <1>7, <1>8, <1>10 DEF n1

\* yeptris_node_map_add places a new key and the value.
LEMMA MapAddEdits ==
  ASSUME DocumentInv, TypeOK', Careful, NEW m \in Live, NEW v \in Live, NEW key \in Text,
         MapAdd(m, key, v)
  PROVE  /\ Edited(m)
         /\ Lists(nodes', ncount') = [Lists(nodes, ncount) EXCEPT ![m] = Append(Append(ChildSeq(nodes, m), ncount), v)]
  <1> DEFINE K == Lists(nodes, ncount)
             keyed == [nodes EXCEPT ![ncount] = Fresh("scalar", key)]
             L == Live \union {ncount}
             t == Append(Append(K[m], ncount), v)
  <1>1. /\ Kept(nodes, Live, K, docs, displaced) /\ nodes \in [Id -> DNode]
        /\ Live \in SUBSET Id /\ AllPaired(nodes, Live, K)
    BY WholeIs
  <1>2. ~Placed(K, docs, v) /\ v \notin displaced
    BY AttachFree DEF MapAdd, PlacePair
  <1>3. /\ K[m] \in Seq(Live) /\ ChildSeq(nodes, m) = K[m] /\ m \in Id
    BY KidsOf DEF ListOf
  <1>4. ncount \in Id /\ ncount \in Nat /\ ncount \notin Live /\ L \in SUBSET Id
    BY <1>1 DEF MapAdd, PlacePair, CanCreate, DocumentInv, TypeOK, Id, Live
  <1>5. keyed \in [Id -> DNode]
    <2>1. Fresh("scalar", key) \in DNode
      BY FreshType DEF Kinds
    <2> QED
      BY <1>1, <1>4, <2>1
  <1>6. /\ \A x \in Live : keyed[x] = nodes[x]
        /\ keyed[ncount].next = NIL /\ keyed[ncount].value = key
    BY <1>1, <1>4 DEF Fresh
  <1> HIDE DEF K
  <1>7. Kept(keyed, L, K, docs, displaced) /\ ~Placed(K, docs, ncount)
    BY <1>1, <1>4, NewKeeps
  <1>8. /\ nodes' = mut_link(mut_link(keyed, m, ncount), m, v) /\ ncount' = ncount + 1
        /\ docs' = docs /\ displaced' = displaced
        /\ nodes[m].kind = "map" /\ map_find(nodes, m, key) = NIL
    BY DEF MapAdd, PlacePair, IsMap
  <1> HIDE DEF keyed
  <1>9. m \in L /\ v \in L /\ ncount \in L /\ ncount # v
    BY <1>4
  <1>10. L = 0 .. (ncount' - 1)
    BY <1>4, <1>8 DEF Live
  <1> HIDE DEF L
  <1>11. /\ Kept(nodes', L, [K EXCEPT ![m] = t], docs, displaced)
         /\ \A x \in Id : SameKey(keyed, nodes', x)
    BY <1>2, <1>4, <1>5, <1>6, <1>7, <1>8, <1>9, PairKeeps
  <1>12. Kept(nodes', 0 .. (ncount' - 1), [K EXCEPT ![m] = t], docs', displaced')
    BY <1>8, <1>10, <1>11
  <1>13. \A x \in Live : SameKey(nodes, nodes', x)
    BY <1>1, <1>6, <1>11 DEF SameKey
  <1>14. K[m] \in Seq(L)
    <2>1. Live \subseteq L
      BY DEF L
    <2> QED
      BY <1>3, <2>1
  <1>15. Spliced(K, docs, K[m], t) /\ t # K[m]
    BY <1>2, <1>7, <1>9, <1>14, SplicedPair
  <1>16. Paired(nodes', t)
    <2>1. Found(nodes, K[m], key, NIL)
      BY <1>3, <1>8, FindIs
    <2>2. \A i \in 1 .. Len(K[m]) : K[m][i] \in Live /\ K[m][i] # NIL
      <3>1. \A x \in Live : x # NIL
        BY <1>1 DEF Id, NIL
      <3> QED
        BY <1>3, <3>1
    <2>3. \A i \in 1 .. Len(K[m]) : i % 2 = 1 => nodes[K[m][i]].value # key
      BY <2>1, <2>2 DEF Found
    <2>4. nodes'[ncount].value = key
      BY <1>4, <1>6, <1>11 DEF SameKey
    <2>5. \A i \in 1 .. Len(K[m]) : SameKey(nodes, nodes', K[m][i])
      BY <1>13, <2>2
    <2>6. \A i \in 1 .. Len(K[m]) : i % 2 = 1 => nodes'[K[m][i]].value # nodes'[ncount].value
      BY <2>3, <2>4, <2>5 DEF SameKey
    <2>7. Paired(nodes, K[m])
      BY <1>1, <1>8 DEF AllPaired
    <2> QED
      BY <1>9, <1>14, <2>5, <2>6, <2>7, PairedAppend
  <1> HIDE DEF t
  <1>17. ncount <= ncount'
    BY <1>4, <1>8
  <1>18. Edited(m) /\ Lists(nodes', ncount') = [K EXCEPT ![m] = t]
    BY <1>8, <1>12, <1>13, <1>15, <1>16, <1>17, EditStep DEF K
  <1> QED
    BY <1>3, <1>18 DEF K, t

\* yeptris_node_map_add_node places the host's key and value.
LEMMA MapAddNodeEdits ==
  ASSUME DocumentInv, TypeOK', Careful, NEW m \in Live, NEW k \in Live, NEW v \in Live,
         MapAddNode(m, k, v)
  PROVE  /\ Edited(m)
         /\ Lists(nodes', ncount') = [Lists(nodes, ncount) EXCEPT ![m] = Append(Append(ChildSeq(nodes, m), k), v)]
  <1> DEFINE K == Lists(nodes, ncount)
             t == Append(Append(K[m], k), v)
             key == nodes[k].value
  <1>1. /\ Kept(nodes, Live, K, docs, displaced) /\ nodes \in [Id -> DNode]
        /\ Live \in SUBSET Id /\ AllPaired(nodes, Live, K)
    BY WholeIs
  <1>2. ~Placed(K, docs, v) /\ v \notin displaced
    BY AttachFree DEF MapAddNode
  <1>3. k # v /\ ~Placed(K, docs, k) /\ nodes[k].next = NIL
    <2>1. k # v /\ ~nodes[k].att
      BY DEF MapAddNode, HostMayKey, Careful
    <2>2. k \notin Start.parsed /\ k \notin displaced
      BY DEF MapAddNode, HostMayAttach, Careful
    <2> QED
      BY <2>1, <2>2, FreeNode
  <1>4. K[m] \in Seq(Live) /\ ChildSeq(nodes, m) = K[m] /\ m \in Id /\ ncount \in Nat
    BY KidsOf DEF ListOf, DocumentInv, TypeOK
  <1> HIDE DEF K
  <1>5. /\ nodes' = mut_link(mut_link(nodes, m, k), m, v) /\ ncount' = ncount
        /\ docs' = docs /\ displaced' = displaced
        /\ nodes[m].kind = "map" /\ map_find(nodes, m, key) = NIL
    BY DEF MapAddNode, IsMap
  <1>6. /\ Kept(nodes', Live, [K EXCEPT ![m] = t], docs, displaced)
        /\ \A x \in Id : SameKey(nodes, nodes', x)
    BY <1>1, <1>2, <1>3, <1>5, PairKeeps
  <1>7. Kept(nodes', 0 .. (ncount' - 1), [K EXCEPT ![m] = t], docs', displaced')
    BY <1>5, <1>6 DEF Live
  <1>8. \A x \in Live : SameKey(nodes, nodes', x)
    BY <1>1, <1>6
  <1>9. Spliced(K, docs, K[m], t) /\ t # K[m]
    BY <1>2, <1>3, <1>4, SplicedPair
  <1>10. Paired(nodes', t)
    <2>1. Found(nodes, K[m], key, NIL)
      BY <1>4, <1>5, FindIs
    <2>2. \A i \in 1 .. Len(K[m]) : K[m][i] \in Live /\ K[m][i] # NIL
      <3>1. \A x \in Live : x # NIL
        BY <1>1 DEF Id, NIL
      <3> QED
        BY <1>4, <3>1
    <2>3. \A i \in 1 .. Len(K[m]) : i % 2 = 1 => nodes[K[m][i]].value # key
      BY <2>1, <2>2 DEF Found
    <2>4. nodes'[k].value = key
      BY <1>8 DEF SameKey
    <2>5. \A i \in 1 .. Len(K[m]) : SameKey(nodes, nodes', K[m][i])
      BY <1>8, <2>2
    <2>6. \A i \in 1 .. Len(K[m]) : i % 2 = 1 => nodes'[K[m][i]].value # nodes'[k].value
      BY <2>3, <2>4, <2>5 DEF SameKey
    <2>7. Paired(nodes, K[m])
      BY <1>1, <1>5 DEF AllPaired
    <2> QED
      BY <1>4, <2>5, <2>6, <2>7, PairedAppend
  <1> HIDE DEF t
  <1>11. ncount <= ncount'
    BY <1>4, <1>5
  <1>12. Edited(m) /\ Lists(nodes', ncount') = [K EXCEPT ![m] = t]
    BY <1>5, <1>7, <1>8, <1>9, <1>10, <1>11, EditStep DEF K
  <1> QED
    BY <1>3, <1>12, <1>4 DEF K, t

\* In a list of even length an odd position has a successor.
LEMMA KeyThenValue ==
  ASSUME NEW l \in Nat, l % 2 = 0, NEW i \in 1 .. l, i % 2 = 1
  PROVE  i + 1 \in 1 .. l /\ i < l /\ (i + 1) % 2 = 0
  OBVIOUS

\* The key that map_find returns is followed by its value.
LEMMA KeyFound ==
  ASSUME DocumentInv, NEW m \in Live, nodes[m].kind = "map", NEW K, Lists(nodes, ncount) = K,
         NEW key, NEW k \in Id, k = map_find(nodes, m, key)
  PROVE  \E i \in 1 .. Len(K[m]) :
           /\ i % 2 = 1 /\ i + 1 \in 1 .. Len(K[m]) /\ (i + 1) % 2 = 0
           /\ k = K[m][i] /\ nodes[k].next = K[m][i + 1]
  <1>1. /\ Spells(nodes, m, K[m]) /\ ChildSeq(nodes, m) = K[m]
        /\ K[m] \in Seq(Live) /\ Len(K[m]) \in Nat
    BY KidsOf DEF ListOf
  <1>2. Paired(nodes, K[m])
    BY WholeIs DEF AllPaired
  <1>3. Found(nodes, K[m], key, k)
    BY <1>1, FindIs
  <1>4. k # NIL
    BY DEF Id, NIL
  <1>5. PICK i \in 1 .. Len(K[m]) : k = K[m][i] /\ i % 2 = 1
    BY <1>3, <1>4 DEF Found
  <1>6. Len(K[m]) % 2 = 0
    BY <1>2 DEF Paired
  <1>7. i + 1 \in 1 .. Len(K[m]) /\ i < Len(K[m]) /\ (i + 1) % 2 = 0
    BY <1>1, <1>5, <1>6, KeyThenValue
  <1>8. nodes[K[m][i]].next = After(K[m], i)
    BY <1>1 DEF Spells, Chain
  <1>9. nodes[k].next = K[m][i + 1]
    BY <1>5, <1>7, <1>8 DEF After
  <1> QED
    BY <1>5, <1>7, <1>9

\* yeptris_node_map_set of a key that is present replaces the value after it.
LEMMA MapReplaceEdits ==
  ASSUME DocumentInv, TypeOK', Careful, NEW m \in Live, NEW v \in Live, NEW key \in Text,
         MapReplace(m, key, v)
  PROVE  /\ Edited(m)
         /\ \E i \in 1 .. Len(ChildSeq(nodes, m)) :
              /\ i % 2 = 0 /\ i - 1 \in 1 .. Len(ChildSeq(nodes, m))
              /\ ChildSeq(nodes, m)[i - 1] = map_find(nodes, m, key)
              /\ nodes[map_find(nodes, m, key)].next = ChildSeq(nodes, m)[i]
              /\ Lists(nodes', ncount')
                   = [Lists(nodes, ncount) EXCEPT ![m] = [ChildSeq(nodes, m) EXCEPT ![i] = v]]
  <1> DEFINE K == Lists(nodes, ncount)
  <1>1. /\ Kept(nodes, Live, K, docs, displaced) /\ nodes \in [Id -> DNode]
        /\ Live \in SUBSET Id /\ AllPaired(nodes, Live, K)
    BY WholeIs
  <1>2. ~Placed(K, docs, v)
    BY AttachFree DEF MapReplace
  <1>3. K[m] \in Seq(Live) /\ m \in Id /\ ncount \in Nat /\ NoRepeat(K[m])
    BY KidsOf DEF ListOf, DocumentInv, TypeOK
  <1>4. nodes[m].kind = "map" /\ ncount' = ncount /\ docs' = docs
    BY DEF MapReplace, IsMap
  <1>5. PICK k \in Id : /\ k = map_find(nodes, m, key) /\ nodes' = map_splice(nodes, m, k, v)
                        /\ displaced' = displaced \union {nodes[k].next}
    BY DEF MapReplace
  <1>6. \E i \in 1 .. Len(K[m]) :
           /\ i % 2 = 1 /\ i + 1 \in 1 .. Len(K[m]) /\ (i + 1) % 2 = 0
           /\ k = K[m][i] /\ nodes[k].next = K[m][i + 1]
    BY <1>4, <1>5, KeyFound
  <1> HIDE DEF K
  <1>7. PICK i \in 1 .. Len(K[m]) :
           /\ i % 2 = 1 /\ i + 1 \in 1 .. Len(K[m]) /\ (i + 1) % 2 = 0
           /\ k = K[m][i] /\ nodes[k].next = K[m][i + 1]
    BY <1>6
  <1> DEFINE h == i + 1
             old == nodes[k].next
             t == [K[m] EXCEPT ![h] = v]
  <1>8. h \in 1 .. Len(K[m]) /\ h # 1 /\ h - 1 = i /\ h % 2 = 0 /\ old = K[m][h] /\ h # i
    BY <1>7
  <1> HIDE DEF h, old
  <1>9. old \in Id /\ k # old /\ v # old /\ v # k
    <2>1. old \in Live
      BY <1>3, <1>8
    <2>2. k # old
      BY <1>3, <1>7, <1>8 DEF NoRepeat
    <2>3. v # old /\ v # k
      BY <1>2, <1>3, <1>7, <1>8 DEF Placed
    <2> QED
      BY <1>1, <2>1, <2>2, <2>3
  <1>10. nodes[m].first # old
    <2>1. Sound(nodes, Live, K)
      BY <1>1 DEF Kept
    <2>2. nodes[m].first # K[m][h]
      BY <1>1, <1>8, <2>1, NotFirst
    <2> QED
      BY <1>8, <2>2
  <1>11. Replaced(nodes, nodes', m, k, old, v, nodes[old].next)
    <2>1. old = nodes[k].next
      BY DEF old
    <2>2. v \in Id
      BY <1>1
    <2> QED
      BY <1>1, <1>3, <1>5, <1>9, <1>10, <2>1, <2>2, MapSpliceFields
  <1>12. Kept(nodes', Live, [K EXCEPT ![m] = t], docs, displaced')
    <2>1. displaced \subseteq displaced' /\ old \in displaced'
      BY <1>5 DEF old
    <2>2. k = K[m][h - 1]
      BY <1>7, <1>8
    <2> QED
      BY <1>1, <1>2, <1>8, <1>11, <2>1, <2>2, ReplaceKeeps
  <1>13. Kept(nodes', 0 .. (ncount' - 1), [K EXCEPT ![m] = t], docs', displaced')
    BY <1>4, <1>12 DEF Live
  <1>14. \A x \in Live : SameKey(nodes, nodes', x)
    BY <1>1, <1>11 DEF Replaced, SameKey
  <1>15. Spliced(K, docs, K[m], t) /\ t # K[m]
    BY <1>2, <1>3, <1>8, <1>9, SplicedReplace
  <1>16. Paired(nodes', t)
    <2>1. Paired(nodes, K[m])
      BY <1>1, <1>4 DEF AllPaired
    <2>2. \A j \in 1 .. Len(K[m]) : SameKey(nodes, nodes', K[m][j])
      BY <1>3, <1>14
    <2> QED
      BY <1>3, <1>8, <2>1, <2>2, PairedReplace
  <1> HIDE DEF t
  <1>17. ncount <= ncount'
    BY <1>3, <1>4
  <1>18. Edited(m) /\ Lists(nodes', ncount') = [K EXCEPT ![m] = t]
    BY <1>4, <1>13, <1>14, <1>15, <1>16, <1>17, EditStep DEF K
  <1>19. ChildSeq(nodes, m) = K[m]
    BY KidsOf DEF K
  <1>20. /\ h \in 1 .. Len(K[m]) /\ h % 2 = 0 /\ h - 1 \in 1 .. Len(K[m])
         /\ K[m][h - 1] = map_find(nodes, m, key)
         /\ nodes[map_find(nodes, m, key)].next = K[m][h]
         /\ Lists(nodes', ncount') = [Lists(nodes, ncount) EXCEPT ![m] = [K[m] EXCEPT ![h] = v]]
    <2>1. k = map_find(nodes, m, key)
      BY <1>5
    <2>2. k = K[m][h - 1] /\ nodes[k].next = K[m][h] /\ h - 1 \in 1 .. Len(K[m])
      BY <1>7, <1>8 DEF old
    <2>3. Lists(nodes', ncount') = [Lists(nodes, ncount) EXCEPT ![m] = [K[m] EXCEPT ![h] = v]]
      BY <1>18 DEF K, t
    <2> QED
      BY <1>8, <2>1, <2>2, <2>3
  <1> QED
    BY <1>18, <1>19, <1>20

\* yeptris_node_map_del takes a key and its value out.
LEMMA MapDelEdits ==
  ASSUME DocumentInv, TypeOK', NEW m \in Live, NEW key \in Text, MapDel(m, key)
  PROVE  /\ Edited(m)
         /\ \E i \in 1 .. Len(ChildSeq(nodes, m)) :
              /\ i % 2 = 1 /\ i + 1 \in 1 .. Len(ChildSeq(nodes, m))
              /\ Lists(nodes', ncount')
                   = [Lists(nodes, ncount) EXCEPT ![m] = Without(Without(ChildSeq(nodes, m), i), i)]
  <1> DEFINE K == Lists(nodes, ncount)
  <1>1. /\ Kept(nodes, Live, K, docs, displaced) /\ nodes \in [Id -> DNode]
        /\ Live \in SUBSET Id /\ AllPaired(nodes, Live, K)
    BY WholeIs
  <1>2. K[m] \in Seq(Live) /\ m \in Id /\ ncount \in Nat
    BY KidsOf DEF ListOf, DocumentInv, TypeOK
  <1>3. /\ nodes[m].kind = "map" /\ ncount' = ncount /\ docs' = docs
        /\ displaced' = displaced /\ K \in [Id -> Seq(Live)]
    BY <1>1 DEF MapDel, IsMap, Kept, Sound
  <1>4. PICK k \in Id :
          /\ k = map_find(nodes, m, key) /\ CanUnlink(nodes, m, k)
          /\ nodes' = IF CanUnlink(unlink_child(nodes, m, k), m, nodes[k].next)
                      THEN unlink_child(unlink_child(nodes, m, k), m, nodes[k].next)
                      ELSE unlink_child(nodes, m, k)
    BY DEF MapDel
  <1>5. \E i \in 1 .. Len(K[m]) :
           /\ i % 2 = 1 /\ i + 1 \in 1 .. Len(K[m]) /\ (i + 1) % 2 = 0
           /\ k = K[m][i] /\ nodes[k].next = K[m][i + 1]
    BY <1>3, <1>4, KeyFound
  <1> HIDE DEF K
  <1>6. PICK i \in 1 .. Len(K[m]) :
           /\ i % 2 = 1 /\ i + 1 \in 1 .. Len(K[m])
           /\ k = K[m][i] /\ nodes[k].next = K[m][i + 1]
    BY <1>5
  <1> DEFINE cut == unlink_child(nodes, m, k)
             v == nodes[k].next
             u == Without(K[m], i)
             J == [K EXCEPT ![m] = u]
             t == Without(u, i)
  <1>7. cut \in [Id -> DNode] /\ Kept(cut, Live, J, docs, displaced)
    BY <1>1, <1>2, <1>4, <1>6, UnlinkType, UnlinkKeeps
  <1>8. \A x \in Id : SameKey(nodes, cut, x)
    BY <1>1, <1>2, <1>4, UnlinkSameKey
  <1>9. J[m] = u /\ [J EXCEPT ![m] = t] = [K EXCEPT ![m] = t]
    BY <1>2, <1>3
  <1>10. i \in 1 .. Len(u) /\ v = u[i] /\ v \in Live
    <2>1. /\ Len(u) = Len(K[m]) - 1
          /\ \A j \in 1 .. (Len(K[m]) - 1) : u[j] = IF j < i THEN K[m][j] ELSE K[m][j + 1]
      BY <1>2, WithoutIs, Zenon
    <2> HIDE DEF u
    <2>2. i \in 1 .. (Len(K[m]) - 1) /\ ~(i < i)
      BY <1>2, <1>6
    <2>3. K[m][i + 1] \in Live
      BY <1>2, <1>6
    <2> QED
      BY <1>6, <2>1, <2>2, <2>3
  <1>11. nodes' = IF CanUnlink(cut, m, v) THEN unlink_child(cut, m, v) ELSE cut
    BY <1>4
  <1> HIDE DEF cut, v, J
  <1>12. i \in 1 .. Len(J[m]) /\ J[m][i] = v /\ t = Without(J[m], i)
    BY <1>9, <1>10
  <1>13. CanUnlink(cut, m, v)
    <2>1. Sound(cut, Live, J)
      BY <1>7 DEF Kept
    <2>2. CanUnlink(cut, m, J[m][i])
      BY <1>1, <1>7, <1>12, <2>1, PrevIs
    <2> QED
      BY <1>12, <2>2
  <1>13a. Kept(unlink_child(cut, m, v), Live, [J EXCEPT ![m] = t], docs, displaced)
    <2>1. Kept(unlink_child(cut, m, J[m][i]), Live, [J EXCEPT ![m] = Without(J[m], i)],
               docs, displaced)
      BY <1>1, <1>7, <1>12, UnlinkKeeps
    <2> QED
      BY <1>12, <2>1
  <1>14. Kept(nodes', 0 .. (ncount' - 1), [K EXCEPT ![m] = t], docs', displaced')
    BY <1>3, <1>9, <1>11, <1>13, <1>13a DEF Live
  <1>15. \A x \in Live : SameKey(nodes, nodes', x)
    <2>1. \A x \in Id : SameKey(cut, nodes', x)
      BY <1>1, <1>2, <1>7, <1>10, <1>11, <1>13, UnlinkSameKey
    <2> QED
      BY <1>1, <1>8, <2>1 DEF SameKey
  <1>16. i + 1 <= Len(K[m])
    BY <1>2, <1>6
  <1>17. Spliced(K, docs, K[m], t) /\ t # K[m]
    BY <1>2, <1>16, SplicedPairOut
  <1>18. Paired(nodes', t)
    <2>1. Paired(nodes, K[m])
      BY <1>1, <1>3 DEF AllPaired
    <2>2. \A j \in 1 .. Len(K[m]) : SameKey(nodes, nodes', K[m][j])
      BY <1>2, <1>15
    <2> QED
      BY <1>2, <1>16, <2>1, <2>2, PairedWithout
  <1> HIDE DEF t
  <1>19. ncount <= ncount'
    BY <1>2, <1>3
  <1>20. Edited(m) /\ Lists(nodes', ncount') = [K EXCEPT ![m] = t]
    BY <1>3, <1>14, <1>15, <1>17, <1>18, <1>19, EditStep DEF K
  <1>21. ChildSeq(nodes, m) = K[m]
    BY KidsOf DEF K
  <1>22. /\ i % 2 = 1 /\ i + 1 \in 1 .. Len(K[m])
         /\ Lists(nodes', ncount')
              = [Lists(nodes, ncount) EXCEPT ![m] = Without(Without(K[m], i), i)]
    BY <1>6, <1>20 DEF K, t, u
  <1> QED
    BY <1>6, <1>20, <1>21, <1>22

-----------------------------------------------------------------------------
(* The calls that edit no list.                                            *)

\* Nodes made later are in no list, so mappings stay paired.
LEMMA AllPairedGrown ==
  ASSUME NEW n, NEW N, NEW L \in SUBSET Id, NEW M \in SUBSET Id, NEW K \in [Id -> Seq(L)],
         \A q \in Id \ L : K[q] = << >>, AllPaired(n, L, K), \A x \in L : SameKey(n, N, x)
  PROVE  AllPaired(N, M, K)
  <1> SUFFICES ASSUME NEW m \in M, N[m].kind = "map" PROVE Paired(N, K[m])
    BY DEF AllPaired
  <1>1. CASE m \in L
    <2>1. n[m].kind = "map" /\ Paired(n, K[m])
      BY <1>1 DEF SameKey, AllPaired
    <2>2. K[m] \in Seq(L)
      BY <1>1
    <2>3. \A i \in 1 .. Len(K[m]) : SameKey(n, N, K[m][i])
      BY <2>2
    <2> QED
      BY <2>1, <2>3, PairedSame
  <1>2. CASE m \notin L
    <2>1. K[m] = << >>
      BY <1>2
    <2> QED
      BY <2>1 DEF Paired
  <1> QED
    BY <1>1, <1>2

\* Every list stays as it is, and the document whole.
Unedited ==
  /\ DocumentInv'
  /\ Lists(nodes', ncount') = Lists(nodes, ncount)
  /\ Live' \in SUBSET Id /\ Live \subseteq Live'
  /\ \A q \in Live : ChildSeq(nodes', q) = ChildSeq(nodes, q)
  /\ \A x \in Live : SameKey(nodes, nodes', x)

\* A call whose new links spell the old lists edits none.
LEMMA UneditedStep ==
  ASSUME DocumentInv, TypeOK', ncount <= ncount',
         Kept(nodes', 0 .. (ncount' - 1), Lists(nodes, ncount), docs', displaced'),
         \A x \in Live : SameKey(nodes, nodes', x)
  PROVE  Unedited
  <1> DEFINE K == Lists(nodes, ncount)
             M == 0 .. (ncount' - 1)
  <1>1. /\ Kept(nodes, Live, K, docs, displaced) /\ AllPaired(nodes, Live, K)
        /\ Live \in SUBSET Id /\ ncount \in 0 .. MaxNodes
    BY WholeIs
  <1>2. Kept(nodes', M, K, docs', displaced')
    OBVIOUS
  <1> HIDE DEF K
  <1>3. K \in [Id -> Seq(Live)] /\ \A q \in Id \ Live : K[q] = << >>
    BY <1>1 DEF Kept, Sound
  <1>4. TypeOK
    BY DEF DocumentInv
  <1>5. nodes' \in [Id -> DNode] /\ ncount' \in 0 .. MaxNodes
    BY DEF TypeOK
  <1>6. Live' = M /\ Live' \in SUBSET Id /\ Live \subseteq Live'
    <2>1. Live' = M
      BY DEF Live
    <2> QED
      BY <1>4, <2>1, LiveGrows, Zenon
  <1>7. AllPaired(nodes', M, K)
    <2>1. M \in SUBSET Id
      BY <1>6
    <2> HIDE DEF M
    <2> QED
      BY <1>1, <1>3, <2>1, AllPairedGrown
  <1>8. Whole(nodes', ncount', docs', displaced') /\ Lists(nodes', ncount') = K
    BY <1>2, <1>5, <1>7, WholeBy
  <1>9. DocumentInv'
    BY <1>8 DEF DocumentInv
  <1>10. ASSUME NEW q \in Live PROVE ChildSeq(nodes', q) = ChildSeq(nodes, q)
    <2>1. q \in 0 .. (ncount - 1) /\ q \in M
      BY <1>6 DEF Live
    <2>2. K[q] = ChildSeq(nodes, q)
      BY <1>1, <2>1, ListIs DEF K
    <2>3. K[q] = ChildSeq(nodes', q)
      BY <1>5, <1>8, <2>1, ListIs
    <2> QED
      BY <2>2, <2>3
  <1> QED
    BY <1>6, <1>8, <1>9, <1>10 DEF Unedited, K

\* yeptris_node_new_*: a node without children and without a place.
LEMMA NewKeepsLists ==
  ASSUME DocumentInv, TypeOK', NEW kind, NEW text, New(kind, text)
  PROVE  Unedited
  <1> DEFINE K == Lists(nodes, ncount)
             L == Live \union {ncount}
  <1>1. /\ Kept(nodes, Live, K, docs, displaced) /\ nodes \in [Id -> DNode]
        /\ Live \in SUBSET Id
    BY WholeIs
  <1>2. /\ nodes' = [nodes EXCEPT ![ncount] = Fresh(kind, text)] /\ ncount' = ncount + 1
        /\ docs' = docs /\ displaced' = displaced
    BY DEF New
  <1>3. ncount \in Id /\ ncount \in Nat /\ ncount \notin Live
    BY DEF New, CanCreate, DocumentInv, TypeOK, Id, Live
  <1> HIDE DEF K
  <1>4. Kept(nodes', L, K, docs, displaced)
    BY <1>1, <1>2, <1>3, NewKeeps
  <1>5. L = 0 .. (ncount' - 1) /\ ncount <= ncount'
    BY <1>2, <1>3 DEF Live
  <1> HIDE DEF L
  <1>6. Kept(nodes', 0 .. (ncount' - 1), K, docs', displaced')
    BY <1>2, <1>4, <1>5
  <1>7. \A x \in Live : SameKey(nodes, nodes', x)
    BY <1>1, <1>2, <1>3 DEF SameKey
  <1> QED
    BY <1>5, <1>6, <1>7, UneditedStep DEF K

\* yeptris_document_set_root: the node's place is the root entry.
LEMMA SetRootKeepsLists ==
  ASSUME DocumentInv, TypeOK', Careful, NEW r \in Live, SetRoot(r)
  PROVE  Unedited /\ ~Placed(Lists(nodes, ncount), docs, r)
  <1> DEFINE K == Lists(nodes, ncount)
             marked == [nodes EXCEPT ![r].att = TRUE]
  <1>1. /\ Kept(nodes, Live, K, docs, displaced) /\ nodes \in [Id -> DNode]
        /\ Live \in SUBSET Id /\ r \in Id /\ ncount \in Nat
    BY WholeIs
  <1>2. ~Placed(K, docs, r)
    <2>1. ~nodes[r].att /\ r \notin Start.parsed /\ r \notin displaced
      BY DEF SetRoot, Careful
    <2> QED
      BY <2>1, FreeNode
  <1> HIDE DEF K
  <1>3. /\ nodes' = yep_mut_set_depths(marked, r, 0) /\ ncount' = ncount
        /\ docs' = Append(docs, r) /\ displaced' = displaced
    BY DEF SetRoot
  <1>4. marked \in [Id -> DNode]
    BY <1>1, FieldTypes
  <1>5. ASSUME NEW x \in Id
        PROVE /\ marked[x].first = nodes[x].first /\ marked[x].last = nodes[x].last
              /\ marked[x].next = nodes[x].next /\ marked[x].count = nodes[x].count
              /\ marked[x].kind = nodes[x].kind /\ marked[x].value = nodes[x].value
              /\ x = r => marked[x].att = TRUE
              /\ x # r => marked[x].att = nodes[x].att
    <2>1. nodes[x] \in DNode
      BY <1>1
    <2>2. marked[x] = IF x = r THEN [nodes[x] EXCEPT !.att = TRUE] ELSE nodes[x]
      BY <1>1
    <2> HIDE DEF marked
    <2>3. CASE x = r
      BY <2>1, <2>2, <2>3 DEF DNode
    <2>4. CASE x # r
      BY <2>2, <2>4
    <2> QED
      BY <2>3, <2>4
  <1> HIDE DEF marked
  <1>6. ASSUME NEW x \in Id
        PROVE /\ nodes'[x].first = marked[x].first /\ nodes'[x].last = marked[x].last
              /\ nodes'[x].next = marked[x].next /\ nodes'[x].count = marked[x].count
              /\ nodes'[x].kind = marked[x].kind /\ nodes'[x].value = marked[x].value
              /\ nodes'[x].att = marked[x].att
    BY <1>3, <1>4, SetDepthsFields
  <1>7. \A x \in Id : /\ nodes'[x].first = nodes[x].first /\ nodes'[x].last = nodes[x].last
                      /\ nodes'[x].next = nodes[x].next /\ nodes'[x].count = nodes[x].count
                      /\ x = r => nodes'[x].att = TRUE
                      /\ x # r => nodes'[x].att = nodes[x].att
    BY <1>5, <1>6, Zenon
  <1>8. Kept(nodes', Live, K, Append(docs, r), displaced)
    BY <1>1, <1>2, <1>7, RootKeeps
  <1>9. Kept(nodes', 0 .. (ncount' - 1), K, docs', displaced')
    BY <1>3, <1>8 DEF Live
  <1>10. \A x \in Live : SameKey(nodes, nodes', x)
    BY <1>1, <1>5, <1>6 DEF SameKey
  <1>11. ncount <= ncount'
    BY <1>1, <1>3
  <1> QED
    BY <1>2, <1>9, <1>10, <1>11, UneditedStep DEF K

\* The indexed reads, and steps of something else.
LEMMA ReadKeepsLists ==
  ASSUME DocumentInv, TypeOK', UNCHANGED <<nodes, ncount, docs, displaced>>
  PROVE  Unedited
  <1>1. Kept(nodes, Live, Lists(nodes, ncount), docs, displaced) /\ ncount \in Nat
    BY WholeIs
  <1>2. Kept(nodes', 0 .. (ncount' - 1), Lists(nodes, ncount), docs', displaced')
    BY <1>1 DEF Live
  <1>3. \A x \in Live : SameKey(nodes, nodes', x)
    BY DEF SameKey
  <1>4. ncount <= ncount'
    BY <1>1
  <1> QED
    BY <1>2, <1>3, <1>4, UneditedStep

-----------------------------------------------------------------------------
(* The document stays whole and implements OrderedTree.                    *)

\* The calls begin with a whole document.
StartsWhole == Whole(Start.nodes, Start.ncount, Start.docs, {})

\* What any step of a careful host does.
Outcome ==
  \/ \E p \in Live : Edited(p)
  \/ Unedited /\ docs' = docs
  \/ \E r \in Live : Unedited /\ SetRoot(r) /\ ~Placed(Lists(nodes, ncount), docs, r)

\* Every call edits one list, edits none, or adds a root.
LEMMA StepOutcome ==
  ASSUME DocumentInv, Careful, [Next]_vars
  PROVE  Outcome
  <1> USE DEF caches
  <1>1. TypeOK'
    BY NextType DEF DocumentInv
  <1>2. ASSUME NEW kind, NEW t, New(kind, t) PROVE Outcome
    BY <1>1, <1>2, NewKeepsLists DEF Outcome, New
  <1>3. ASSUME NEW t, NewScalar(t) \/ NewAlias(t) PROVE Outcome
    BY <1>2, <1>3 DEF NewScalar, NewAlias
  <1>4. CASE NewSequence \/ NewMapping
    BY <1>2, <1>4 DEF NewSequence, NewMapping
  <1>5. ASSUME NEW s \in Live, NEW v \in Live, SeqAdd(s, v) PROVE Outcome
    BY <1>1, <1>5, SeqAddEdits DEF Outcome
  <1>6. ASSUME NEW s \in Live, NEW v \in Live, NEW i \in 0 .. MaxNodes, SeqSet(s, i, v)
        PROVE  Outcome
    BY <1>1, <1>6, SeqSetEdits DEF Outcome
  <1>7. ASSUME NEW s \in Live, NEW i \in 0 .. MaxNodes, SeqDel(s, i) PROVE Outcome
    BY <1>1, <1>7, SeqDelEdits DEF Outcome
  <1>8. ASSUME NEW m \in Live, NEW v \in Live, NEW t \in Text, MapSet(m, t, v)
        PROVE  Outcome
    BY <1>1, <1>8, MapAddEdits, MapReplaceEdits DEF Outcome, MapSet
  <1>9. ASSUME NEW m \in Live, NEW k \in Live, NEW v \in Live, MapAddNode(m, k, v) PROVE Outcome
    BY <1>1, <1>9, MapAddNodeEdits DEF Outcome
  <1>10. ASSUME NEW m \in Live, NEW t \in Text, MapDel(m, t) PROVE Outcome
    BY <1>1, <1>10, MapDelEdits DEF Outcome
  <1>11. ASSUME NEW r \in Live, SetRoot(r) PROVE Outcome
    BY <1>1, <1>11, SetRootKeepsLists DEF Outcome
  <1>12. ASSUME NEW p \in Live, SeqAt(p) \/ MapGet(p) PROVE Outcome
    BY <1>1, <1>12, ReadKeepsLists DEF Outcome, SeqAt, MapGet
  <1>13. CASE UNCHANGED vars
    BY <1>1, <1>13, ReadKeepsLists DEF Outcome, vars
  <1> QED
    BY <1>3, <1>4, <1>5, <1>6, <1>7, <1>8, <1>9, <1>10, <1>11, <1>12, <1>13 DEF Next

\* A node of the document has a place, or is free in the sense of OrderedTree.
LEMMA FreeMeans ==
  ASSUME DocumentInv, NEW c \in Live
  PROVE  Placed(Lists(nodes, ncount), docs, c) <=> ~Tree!Free(c)
  <1> DEFINE K == Lists(nodes, ncount)
  <1>1. K \in [Id -> Seq(Live)] /\ docs \in Seq(Live)
    BY WholeIs DEF Kept, Sound, RootsApart
  <1>2. DOMAIN docs = 1 .. Len(docs) /\ \A q \in Id : DOMAIN K[q] = 1 .. Len(K[q])
    BY <1>1
  <1>3. c \in Tree!Elems(docs) <=> \E i \in 1 .. Len(docs) : docs[i] = c
    BY <1>2 DEF Tree!Elems
  <1>4. \A q \in Id : c \in Tree!Elems(K[q]) <=> \E i \in 1 .. Len(K[q]) : K[q][i] = c
    BY <1>2 DEF Tree!Elems
  <1> HIDE DEF K
  <1>5. Tree!Free(c) <=> c \notin Tree!Elems(docs) /\ \A q \in Id : c \notin Tree!Elems(K[q])
    BY DEF Tree!Free, K
  <1> QED
    BY <1>3, <1>4, <1>5 DEF Placed, K

\* An outcome leaves the document whole and is a step of OrderedTree.
LEMMA OutcomeIsStep ==
  ASSUME DocumentInv, Outcome
  PROVE  DocumentInv' /\ [Tree!Next]_Tree!vars
  <1>1. TypeOK /\ Live \in SUBSET Id
    BY WholeIs DEF DocumentInv
  <1>2. ASSUME NEW p \in Live, Edited(p) PROVE DocumentInv' /\ Tree!Next
    <2>1. DocumentInv' /\ Tree!Edit(p) /\ p \in Id
      BY <1>1, <1>2 DEF Edited
    <2> QED
      BY <2>1 DEF Tree!Next
  <1>3. ASSUME Unedited, docs' = docs PROVE DocumentInv' /\ Tree!Next
    <2>1. /\ DocumentInv' /\ Live' \in SUBSET Id /\ Live \subseteq Live'
          /\ Lists(nodes, ncount)' = Lists(nodes, ncount)
      BY <1>3 DEF Unedited
    <2>2. Tree!Create
      BY <1>3, <2>1, Zenon DEF Tree!Create
    <2> QED
      BY <2>1, <2>2 DEF Tree!Next
  <1>4. ASSUME NEW r \in Live, Unedited, SetRoot(r), ~Placed(Lists(nodes, ncount), docs, r)
        PROVE  DocumentInv' /\ Tree!Next
    <2>1. /\ DocumentInv' /\ Lists(nodes, ncount)' = Lists(nodes, ncount)
      BY <1>4 DEF Unedited
    <2>2. docs' = Append(docs, r) /\ ncount' = ncount
      BY <1>4 DEF SetRoot
    <2>3. Tree!Free(r)
      BY <1>4, FreeMeans
    <2>4. Live' = Live
      BY <2>2 DEF Live
    <2>5. Tree!Root(r)
      BY <2>1, <2>2, <2>3, <2>4, Zenon DEF Tree!Root
    <2>6. r \in Id
      BY <1>1
    <2> QED
      BY <2>1, <2>5, <2>6 DEF Tree!Next
  <1> QED
    BY <1>2, <1>3, <1>4 DEF Outcome

\* A whole start meets the inductive invariant.
LEMMA InitWhole == StartsWhole /\ Init => DocumentInv
  <1> SUFFICES ASSUME StartsWhole, Init PROVE DocumentInv
    OBVIOUS
  <1>1. TypeOK
    BY InitType
  <1>2. Whole(nodes, ncount, docs, displaced)
    BY DEF StartsWhole, Init
  <1> QED
    BY <1>1, <1>2 DEF DocumentInv

\* The links of every document that the calls can reach spell out ordered
\* child lists with every node in one place at most; roots stand apart,
\* mappings hold pairs, and the attached bit tells who has a place (dom/dom.h;
\* mutate.c:7-8), however large the arena and whatever whole document the
\* calls begin with.
THEOREM DocumentAlwaysWhole ==
  ASSUME Careful, StartsWhole
  PROVE  Spec => []DocumentInv
  <1>1. Init => DocumentInv
    BY InitWhole
  <1>2. DocumentInv /\ [Next]_vars => DocumentInv'
    BY StepOutcome, OutcomeIsStep
  <1> QED
    BY <1>1, <1>2, PTL DEF Spec

\* A whole document is an ordered forest.
LEMMA WholeIsForest == DocumentInv => Tree!Init
  <1> SUFFICES ASSUME DocumentInv PROVE Tree!Init
    OBVIOUS
  <1> DEFINE K == Lists(nodes, ncount)
  <1>1. /\ K \in [Id -> Seq(Live)] /\ docs \in Seq(Live) /\ Live \in SUBSET Id
        /\ OnePlace(K) /\ RootsApart(Live, K, docs)
        /\ \A q \in Id \ Live : K[q] = << >>
    BY WholeIs DEF Kept, Sound, RootsApart
  <1>2. DOMAIN docs = 1 .. Len(docs) /\ \A q \in Id : DOMAIN K[q] = 1 .. Len(K[q])
    BY <1>1
  <1> HIDE DEF K
  <1>3. ASSUME NEW p \in Id PROVE Tree!Distinct(K[p]) /\ (p \notin Live => K[p] = << >>)
    <2>1. \A i, j \in 1 .. Len(K[p]) : K[p][i] = K[p][j] => i = j
      BY <1>1 DEF OnePlace
    <2> QED
      BY <1>1, <1>2, <2>1 DEF Tree!Distinct
  <1>4. ASSUME NEW p \in Id, NEW q \in Id, p # q
        PROVE  Tree!Elems(K[p]) \intersect Tree!Elems(K[q]) = {}
    <2>1. \A i \in 1 .. Len(K[p]), j \in 1 .. Len(K[q]) : K[p][i] # K[q][j]
      BY <1>1, <1>4 DEF OnePlace
    <2> QED
      BY <1>2, <2>1 DEF Tree!Elems
  <1>5. Tree!Distinct(docs)
    BY <1>1, <1>2 DEF Tree!Distinct, RootsApart
  <1>6. ASSUME NEW p \in Id PROVE Tree!Elems(K[p]) \intersect Tree!Elems(docs) = {}
    <2>1. \A i \in 1 .. Len(K[p]), j \in 1 .. Len(docs) : K[p][i] # docs[j]
      BY <1>1 DEF RootsApart
    <2> QED
      BY <1>2, <2>1 DEF Tree!Elems
  <1> QED
    BY <1>1, <1>3, <1>4, <1>5, <1>6, Zenon DEF Tree!Init, K

\* Chains of sibling links implement ordered child lists: each call of a
\* careful host edits one list at one place, keeps every other child where it
\* was, and takes in only nodes that had no place (include/yeptris/dom.h:94-98).
THEOREM TreeImplemented ==
  ASSUME Careful, StartsWhole
  PROVE  Spec => ImplementsOrderedTree
  <1>1. Init => Tree!Init
    BY InitWhole, WholeIsForest
  <1>2. DocumentInv /\ [Next]_vars => [Tree!Next]_Tree!vars
    BY StepOutcome, OutcomeIsStep
  <1>3. Spec => []DocumentInv
    BY DocumentAlwaysWhole
  <1> QED
    BY <1>1, <1>2, <1>3, PTL DEF Spec, ImplementsOrderedTree, Tree!Spec

\* No call of a careful host gives a node two parents, two places, or a parent
\* and a root entry (include/yeptris/dom.h:94; mutate.c:7).
THEOREM OneParentAlways ==
  ASSUME Careful, StartsWhole
  PROVE  Spec => []OneParent
  <1>1. DocumentInv => OneParent
    BY WholeIsForest DEF OneParent, Tree!OneParent, Tree!Init
  <1> QED
    BY <1>1, DocumentAlwaysWhole, PTL

\* The counts and last children that dom_link trusts agree with the chains, no
\* key of a mapping repeats, and the bit that mut_attach_ok asks is set for
\* exactly the placed nodes (dom.c:296-308; mutate.c:135-138, 248-277).
THEOREM ChainsAlwaysSound ==
  ASSUME Careful, StartsWhole
  PROVE  Spec => []ChainsSound
  <1>1. ASSUME DocumentInv PROVE ChainsSound
    <2> DEFINE K == Lists(nodes, ncount)
    <2>1. /\ Kept(nodes, Live, K, docs, displaced) /\ AllPaired(nodes, Live, K)
      BY <1>1, WholeIs
    <2>2. ASSUME NEW p \in Live
          PROVE  /\ ChildSeq(nodes, p) = K[p] /\ nodes[p].count = Len(K[p])
                 /\ K[p] # << >> => nodes[p].last = K[p][Len(K[p])]
      BY <1>1, KidsOf DEF ListOf, Spells
    <2> HIDE DEF K
    <2>3. CountsMatchChain
      BY <2>2 DEF CountsMatchChain
    <2>4. PairsBalanced
      BY <2>1, <2>2 DEF PairsBalanced, AllPaired
    <2>5. AttachedMeansPlaced
      <3> SUFFICES ASSUME NEW c \in Live \ Start.parsed PROVE nodes[c].att <=> Placed(K, docs, c)
        BY DEF AttachedMeansPlaced, K
      <3>1. (nodes[c].att => Placed(K, docs, c)) /\ (Placed(K, docs, c) => nodes[c].att)
        BY <2>1 DEF Kept, Marked
      <3> QED
        BY <3>1, Zenon
    <2> QED
      BY <1>1, <2>3, <2>4, <2>5 DEF ChainsSound, DocumentInv
  <1>2. DocumentInv => ChainsSound
    BY <1>1
  <1> QED
    BY <1>2, DocumentAlwaysWhole, PTL

-----------------------------------------------------------------------------
(* The child cache and the key indexes.                                    *)

\* tab_build would insert the same keys after a step that leaves m's list be.
LEMMA SameScalarKeys ==
  ASSUME DocumentInv, NEW m \in Live, ChildSeq(nodes', m) = ChildSeq(nodes, m),
         \A x \in Live : SameKey(nodes, nodes', x)
  PROVE  ScalarKeys(nodes', m) = ScalarKeys(nodes, m)
  <1> DEFINE s == ChildSeq(nodes, m)
  <1>1. s \in Seq(Live)
    BY KidsOf DEF ListOf
  <1> HIDE DEF s
  <1>2. \A k \in Elems(s) : k \in Live
    BY <1>1 DEF Elems
  <1>3. {k \in Elems(s) : nodes'[k].kind = "scalar"} = {k \in Elems(s) : nodes[k].kind = "scalar"}
    BY <1>2 DEF SameKey
  <1>4. ScalarKeys(nodes, m) = KeysAmong(s, {k \in Elems(s) : nodes[k].kind = "scalar"})
    BY DEF ScalarKeys, s
  <1>5. ScalarKeys(nodes', m) = KeysAmong(s, {k \in Elems(s) : nodes'[k].kind = "scalar"})
    BY DEF ScalarKeys, s
  <1> QED
    BY <1>3, <1>4, <1>5

\* A step keeps the caches coherent if it drops what is cached of the lists P
\* that it edits.
LEMMA CachesKept ==
  ASSUME DocumentInv, CacheInv, TypeOK', NEW P,
         Live' \in SUBSET Id, Live \subseteq Live', \A x \in Live : SameKey(nodes, nodes', x),
         \A q \in Live \ P : ChildSeq(nodes', q) = ChildSeq(nodes, q),
         \A m \in Id : tabs'[m] = NoTab \/ (tabs'[m] = tabs[m] /\ (m \in P => ~IsMap(m))),
         cache' = NoCache \/ (cache' = cache /\ cache.id \notin P)
  PROVE  CacheInv'
  <1>1. ASSUME NEW m \in Id, tabs'[m] # NoTab
        PROVE  m \in Live \ P /\ nodes[m].kind = "map" /\ tabs'[m] = tabs[m]
    <2>1. tabs'[m] = tabs[m] /\ (m \in P => ~IsMap(m))
      BY <1>1
    <2>2. IsMap(m)
      BY <1>1, <2>1 DEF CacheInv
    <2> QED
      BY <2>1, <2>2 DEF IsMap
  <1>2. ASSUME NEW m \in Id, tabs'[m] # NoTab PROVE IsMap(m)'
    <2>1. m \in Live' /\ nodes'[m].kind = "map"
      BY <1>1, <1>2 DEF SameKey
    <2> QED
      BY <2>1 DEF IsMap
  <1>3. ASSUME NEW m \in Id, tabs'[m] # NoTab PROVE tabs'[m] = ScalarKeys(nodes', m)
    <2>1. m \in Live \ P /\ tabs'[m] = tabs[m]
      BY <1>1, <1>3
    <2>2. tabs[m] = ScalarKeys(nodes, m)
      BY <1>3, <2>1 DEF CacheInv, CachesCoherent, IndexCoherent
    <2>3. ScalarKeys(nodes', m) = ScalarKeys(nodes, m)
      BY <2>1, SameScalarKeys
    <2> QED
      BY <2>1, <2>2, <2>3
  <1>4. IndexCoherent'
    BY <1>3 DEF IndexCoherent
  <1>5. cache'.id \in Live' \union {NIL}
    BY DEF NoCache, CacheInv
  <1>6. ASSUME cache'.id # NIL PROVE cache'.ids = ChildSeq(nodes', cache'.id)
    <2>1. cache' = cache /\ cache.id \notin P /\ cache.id # NIL
      BY <1>6 DEF NoCache
    <2>2. cache.id \in Live /\ cache.ids = ChildSeq(nodes, cache.id)
      BY <2>1 DEF CacheInv, CachesCoherent, ChildCacheCoherent
    <2>3. ChildSeq(nodes', cache.id) = ChildSeq(nodes, cache.id)
      BY <2>1, <2>2
    <2> QED
      BY <2>1, <2>2, <2>3
  <1>7. ChildCacheCoherent'
    BY <1>6 DEF ChildCacheCoherent
  <1> QED
    BY <1>2, <1>4, <1>5, <1>7 DEF CacheInv, CachesCoherent

\* A call that edits p's list, and drops p's index if p is a mapping.
LEMMA EditCaches ==
  ASSUME DocumentInv, CacheInv, NEW p, Edited(p),
         tabs' = [tabs EXCEPT ![p] = NoTab] \/ (tabs' = tabs /\ nodes[p].kind # "map"),
         cache' = NoCache \/ (cache' = cache /\ cache.id # p)
  PROVE  CacheInv'
  <1> DEFINE P == {p}
  <1>1. /\ TypeOK' /\ p \in Live /\ Live \subseteq Live'
        /\ \A q \in Live \ P : ChildSeq(nodes', q) = ChildSeq(nodes, q)
        /\ \A x \in Live : SameKey(nodes, nodes', x)
    BY DEF Edited, DocumentInv
  <1>2. Live' \in SUBSET Id
    BY <1>1 DEF Edited, Tree!Edit
  <1>3. DOMAIN tabs = Id
    BY DEF DocumentInv, TypeOK
  <1>4. ASSUME NEW m \in Id
        PROVE  tabs'[m] = NoTab \/ (tabs'[m] = tabs[m] /\ (m \in P => ~IsMap(m)))
    BY <1>3 DEF IsMap
  <1>5. cache' = NoCache \/ (cache' = cache /\ cache.id \notin P)
    OBVIOUS
  <1> HIDE DEF P
  <1> QED
    BY <1>1, <1>2, <1>4, <1>5, CachesKept

\* A call that edits no list leaves the caches true.
LEMMA UneditedCaches ==
  ASSUME DocumentInv, CacheInv, Unedited, UNCHANGED caches
  PROVE  CacheInv'
  <1> DEFINE P == {}
  <1>1. /\ TypeOK' /\ Live' \in SUBSET Id /\ Live \subseteq Live'
        /\ \A q \in Live : ChildSeq(nodes', q) = ChildSeq(nodes, q)
        /\ \A x \in Live : SameKey(nodes, nodes', x)
    BY DEF Unedited, DocumentInv
  <1>2. tabs' = tabs /\ cache' = cache
    BY DEF caches
  <1>3. \A q \in Live \ P : ChildSeq(nodes', q) = ChildSeq(nodes, q)
    BY <1>1
  <1>4. \A m \in Id : tabs'[m] = NoTab \/ (tabs'[m] = tabs[m] /\ (m \in P => ~IsMap(m)))
    BY <1>2
  <1>5. cache' = NoCache \/ (cache' = cache /\ cache.id \notin P)
    BY <1>2
  <1> HIDE DEF P
  <1> QED
    BY <1>1, <1>3, <1>4, <1>5, CachesKept

\* The index of a mapping is built by its first lookup, the cache by an
\* indexed read of another node.
LEMMA MapGetCaches ==
  ASSUME DocumentInv, CacheInv, NEW m \in Live, MapGet(m)
  PROVE  CacheInv'
  <1>1. /\ nodes' = nodes /\ ncount' = ncount /\ cache' = cache /\ IsMap(m)
        /\ tabs' = [tabs EXCEPT ![m] = IF tabs[m] = NoTab THEN ScalarKeys(nodes, m) ELSE tabs[m]]
    BY DEF MapGet
  <1>2. DOMAIN tabs = Id /\ m \in Id /\ Live' = Live
    BY <1>1, WholeIs DEF DocumentInv, TypeOK, Live
  <1>3. ASSUME NEW x \in Id, tabs'[x] # NoTab
        PROVE  IsMap(x) /\ (x \in Live => tabs'[x] = ScalarKeys(nodes, x))
    <2>1. CASE x = m
      BY <1>1, <1>2, <2>1 DEF CacheInv, CachesCoherent, IndexCoherent
    <2>2. CASE x # m
      BY <1>1, <1>2, <1>3, <2>2 DEF CacheInv, CachesCoherent, IndexCoherent
    <2> QED
      BY <2>1, <2>2
  <1>4. \A x \in Id : tabs'[x] # NoTab => IsMap(x)'
    BY <1>1, <1>2, <1>3 DEF IsMap
  <1>5. IndexCoherent'
    BY <1>1, <1>2, <1>3, WholeIs DEF IndexCoherent
  <1>6. ChildCacheCoherent' /\ cache'.id \in Live' \union {NIL}
    BY <1>1, <1>2 DEF CacheInv, CachesCoherent, ChildCacheCoherent
  <1> QED
    BY <1>4, <1>5, <1>6 DEF CacheInv, CachesCoherent

\* yep_seq_at fills the child cache with the children it counts.
LEMMA SeqAtCaches ==
  ASSUME DocumentInv, CacheInv, NEW p \in Live, SeqAt(p)
  PROVE  CacheInv'
  <1> DEFINE s == ChildSeq(nodes, p)
  <1>1. /\ nodes' = nodes /\ ncount' = ncount /\ tabs' = tabs
        /\ cache' = IF cache.id = p THEN cache
                    ELSE [id |-> p, ids |-> IF Len(s) <= nodes[p].count THEN s
                                            ELSE SubSeq(s, 1, nodes[p].count)]
    BY DEF SeqAt
  <1>2. nodes[p].count = Len(s) /\ Len(s) \in Nat
    BY KidsOf DEF ListOf
  <1> HIDE DEF s
  <1>3. cache' = IF cache.id = p THEN cache ELSE [id |-> p, ids |-> s]
    BY <1>1, <1>2
  <1>4. Live' = Live
    BY <1>1 DEF Live
  <1>5. cache'.id \in Live' \union {NIL}
    BY <1>3, <1>4 DEF CacheInv
  <1>6. ChildCacheCoherent'
    <2>1. CASE cache.id = p
      BY <1>1, <1>3, <2>1 DEF CacheInv, CachesCoherent, ChildCacheCoherent
    <2>2. CASE cache.id # p
      BY <1>1, <1>3, <2>2 DEF ChildCacheCoherent, s
    <2> QED
      BY <2>1, <2>2
  <1>7. IndexCoherent' /\ \A x \in Id : tabs'[x] # NoTab => IsMap(x)'
    BY <1>1, <1>4 DEF CacheInv, CachesCoherent, IndexCoherent, IsMap
  <1> QED
    BY <1>5, <1>6, <1>7 DEF CacheInv, CachesCoherent

\* The host does not replace a child of the collection that it indexed last:
\* yep_mut_seq_set and yep_mut_map_set leave the child cache as it is.
Unindexed == "reindex" \notin Liberties

\* Every call keeps the caches coherent or drops them.
LEMMA StepCaches ==
  ASSUME DocumentInv, CacheInv, Careful, Unindexed, [Next]_vars
  PROVE  CacheInv'
  <1>0. TypeOK'
    BY NextType DEF DocumentInv
  <1>1. ASSUME NEW kind, NEW t, New(kind, t) PROVE CacheInv'
    BY <1>0, <1>1, NewKeepsLists, UneditedCaches DEF New, caches
  <1>2. ASSUME NEW t, NewScalar(t) \/ NewAlias(t) PROVE CacheInv'
    BY <1>1, <1>2 DEF NewScalar, NewAlias
  <1>3. CASE NewSequence \/ NewMapping
    BY <1>1, <1>3 DEF NewSequence, NewMapping
  <1>4. ASSUME NEW s \in Live, NEW v \in Live, SeqAdd(s, v) PROVE CacheInv'
    <2>1. nodes[s].kind # "map" /\ tabs' = tabs /\ cache' = NoCache
      BY <1>4 DEF SeqAdd, IsSeq
    <2> QED
      BY <1>0, <1>4, <2>1, SeqAddEdits, EditCaches
  <1>5. ASSUME NEW s \in Live, NEW v \in Live, NEW i \in 0 .. MaxNodes, SeqSet(s, i, v)
        PROVE  CacheInv'
    <2>1. nodes[s].kind # "map" /\ tabs' = tabs /\ cache' = cache /\ cache.id # s
      BY <1>5 DEF SeqSet, IsSeq, caches, HostMayReplaceIn, Unindexed
    <2> QED
      BY <1>0, <1>5, <2>1, SeqSetEdits, EditCaches
  <1>6. ASSUME NEW s \in Live, NEW i \in 0 .. MaxNodes, SeqDel(s, i) PROVE CacheInv'
    <2>1. nodes[s].kind # "map" /\ tabs' = tabs /\ cache' = NoCache
      BY <1>6 DEF SeqDel, IsSeq
    <2> QED
      BY <1>0, <1>6, <2>1, SeqDelEdits, EditCaches
  <1>7. ASSUME NEW m \in Live, NEW v \in Live, NEW t \in Text, MapAdd(m, t, v) PROVE CacheInv'
    <2>1. tabs' = [tabs EXCEPT ![m] = NoTab] /\ cache' = NoCache
      BY <1>7 DEF MapAdd, PlacePair
    <2> QED
      BY <1>0, <1>7, <2>1, MapAddEdits, EditCaches
  <1>8. ASSUME NEW m \in Live, NEW v \in Live, NEW t \in Text, MapReplace(m, t, v) PROVE CacheInv'
    <2>1. tabs' = [tabs EXCEPT ![m] = NoTab] /\ cache' = cache /\ cache.id # m
      BY <1>8 DEF MapReplace, HostMayReplaceIn, Unindexed
    <2> QED
      BY <1>0, <1>8, <2>1, MapReplaceEdits, EditCaches
  <1>9. ASSUME NEW m \in Live, NEW k \in Live, NEW v \in Live, MapAddNode(m, k, v) PROVE CacheInv'
    <2>1. tabs' = [tabs EXCEPT ![m] = NoTab] /\ cache' = NoCache
      BY <1>9 DEF MapAddNode
    <2> QED
      BY <1>0, <1>9, <2>1, MapAddNodeEdits, EditCaches
  <1>10. ASSUME NEW m \in Live, NEW t \in Text, MapDel(m, t) PROVE CacheInv'
    <2>1. tabs' = [tabs EXCEPT ![m] = NoTab] /\ cache' = NoCache
      BY <1>10 DEF MapDel
    <2> QED
      BY <1>0, <1>10, <2>1, MapDelEdits, EditCaches
  <1>11. ASSUME NEW r \in Live, SetRoot(r) PROVE CacheInv'
    BY <1>0, <1>11, SetRootKeepsLists, UneditedCaches DEF SetRoot
  <1>12. ASSUME NEW p \in Live, SeqAt(p) \/ MapGet(p) PROVE CacheInv'
    BY <1>12, SeqAtCaches, MapGetCaches
  <1>13. CASE UNCHANGED vars
    BY <1>0, <1>13, ReadKeepsLists, UneditedCaches DEF vars, caches
  <1> QED
    BY <1>2, <1>3, <1>4, <1>5, <1>6, <1>7, <1>8, <1>9, <1>10, <1>11, <1>12, <1>13
    DEF Next, MapSet

\* The cached children and the key indexes that answer indexed reads are what a
\* walk of the chains would find, for a host that replaces no child of the
\* collection it indexed last (dom.h:132-135; mapindex.c:36-74, 144-155).
THEOREM CachesAlwaysCoherent ==
  ASSUME Careful, Unindexed, StartsWhole
  PROVE  Spec => []CachesCoherent
  <1>1. Init => DocumentInv /\ CacheInv
    <2> SUFFICES ASSUME Init PROVE DocumentInv /\ CacheInv
      OBVIOUS
    <2>1. DocumentInv
      BY InitWhole
    <2>2. \A m \in Id : tabs[m] = NoTab
      BY DEF Init
    <2>3. cache.id = NIL /\ cache.id \in Live \union {NIL}
      BY DEF Init, NoCache
    <2>4. Live \in SUBSET Id
      BY <2>1, WholeIs
    <2> QED
      BY <2>1, <2>2, <2>3, <2>4 DEF CacheInv, CachesCoherent, ChildCacheCoherent, IndexCoherent
  <1>2. DocumentInv /\ CacheInv /\ [Next]_vars => DocumentInv' /\ CacheInv'
    BY StepOutcome, OutcomeIsStep, StepCaches
  <1>3. CacheInv => CachesCoherent
    BY DEF CacheInv
  <1> QED
    BY <1>1, <1>2, <1>3, PTL DEF Spec

-----------------------------------------------------------------------------
(* The levels below a node.                                                *)

\* The levels inside Level, by themselves.
Rungs(n, v) ==
  CHOOSE lv : lv = [k \in Nat |-> IF k = 0 THEN {v} ELSE UNION {Children(n, x) : x \in lv[k - 1]}]

\* The levels exist: the node itself, and the children of the level above.
LEMMA LevelIs ==
  ASSUME NEW n, NEW v \in Id
  PROVE  /\ Level(n, v, 0) = {v}
         /\ \A j \in Nat : Level(n, v, j + 1) = UNION {Children(n, x) : x \in Level(n, v, j)}
         /\ \A j \in Nat : Level(n, v, j) \in SUBSET Id
  <1> DEFINE S == SUBSET Id
             down(F) == UNION {Children(n, x) : x \in F}
             g == [F \in S |-> down(F)]
  <1>1. g \in [S -> S]
    BY DEF Children
  <1>2. PICK f \in [Nat -> S] : f[0] = {v} /\ \A k \in Nat : f[k + 1] = g[f[k]]
    <2>1. {v} \in S
      OBVIOUS
    <2> HIDE DEF S, g
    <2> QED
      BY <1>1, <2>1, Iterate
  <1>3. \A k \in Nat : f[k + 1] = down(f[k])
    BY <1>2
  <1> HIDE DEF down
  <1>4. ASSUME NEW k \in Nat PROVE f[k] = IF k = 0 THEN {v} ELSE down(f[k - 1])
    <2>1. CASE k = 0
      BY <1>2, <2>1
    <2>2. CASE k # 0
      <3>1. k - 1 \in Nat /\ k = (k - 1) + 1
        BY <2>2
      <3> QED
        BY <1>3, <2>2, <3>1
    <2> QED
      BY <2>1, <2>2
  <1>5. f = [k \in Nat |-> IF k = 0 THEN {v} ELSE down(f[k - 1])]
    BY <1>2, <1>4
  <1>6. Rungs(n, v) = [k \in Nat |-> IF k = 0 THEN {v} ELSE down(Rungs(n, v)[k - 1])]
    BY <1>5 DEF Rungs, down
  <1>7. \A j : Level(n, v, j) = Rungs(n, v)[j]
    BY DEF Level, Rungs
  <1>8. Level(n, v, 0) = {v}
    BY <1>6, <1>7
  <1>9. ASSUME NEW j \in Nat PROVE Level(n, v, j + 1) = down(Level(n, v, j))
    <2> DEFINE k == j + 1
    <2>1. k \in Nat /\ k # 0 /\ k - 1 = j
      OBVIOUS
    <2> HIDE DEF k
    <2>2. Rungs(n, v)[k] = down(Rungs(n, v)[k - 1])
      BY <1>6, <2>1
    <2> QED
      BY <1>7, <2>1, <2>2 DEF k
  <1>10. ASSUME NEW j \in Nat PROVE Level(n, v, j) \in SUBSET Id
    <2>1. CASE j = 0
      BY <1>8, <2>1
    <2>2. CASE j # 0
      <3>1. j - 1 \in Nat /\ j = (j - 1) + 1
        BY <2>2
      <3>2. Level(n, v, j) = down(Level(n, v, j - 1))
        BY <1>9, <3>1
      <3> QED
        BY <3>2 DEF down, Children
    <2> QED
      BY <2>1, <2>2
  <1> QED
    BY <1>8, <1>9, <1>10 DEF down

\* A node of a lower level is the child of one of the level above.
LEMMA LevelParent ==
  ASSUME NEW n, NEW v \in Id, NEW j \in Nat, NEW x
  PROVE  x \in Level(n, v, j + 1) <=> \E p \in Level(n, v, j) : x \in Children(n, p)
  <1>1. Level(n, v, j + 1) = UNION {Children(n, p) : p \in Level(n, v, j)}
    BY LevelIs
  <1> QED
    BY <1>1

\* A node without children has no levels below it.
LEMMA LeafLevels ==
  ASSUME NEW n, NEW v \in Id, Children(n, v) = {}
  PROVE  \A j \in Nat : j # 0 => Level(n, v, j) = {}
  <1> DEFINE T == {j \in Nat : Level(n, v, j + 1) = {}}
  <1>1. 0 \in T
    <2>1. Level(n, v, 0) = {v}
      BY LevelIs
    <2>2. ASSUME NEW x PROVE x \notin Level(n, v, 0 + 1)
      BY <2>1, LevelParent
    <2> QED
      BY <2>2
  <1>2. ASSUME NEW j \in Nat, j \in T PROVE j + 1 \in T
    <2>1. j + 1 \in Nat
      OBVIOUS
    <2>2. ASSUME NEW x PROVE x \notin Level(n, v, (j + 1) + 1)
      BY <1>2, <2>1, LevelParent
    <2> QED
      BY <2>1, <2>2
  <1>3. Nat \subseteq T
    <2> HIDE DEF T
    <2> QED
      BY <1>1, <1>2, SetInduction
  <1>4. ASSUME NEW j \in Nat, j # 0 PROVE Level(n, v, j) = {}
    <2>1. j - 1 \in T /\ j = (j - 1) + 1
      BY <1>3, <1>4
    <2> QED
      BY <2>1
  <1> QED
    BY <1>4

\* mut_height finds the last level that is not empty.
LEMMA HeightIs ==
  ASSUME NEW n, NEW v \in Id, NEW h, h = mut_height(n, v)
  PROVE  /\ h \in 0 .. MaxNodes /\ Level(n, v, h) # {}
         /\ h = MaxNodes \/ Level(n, v, h + 1) = {}
  <1> DEFINE T == {j \in Nat : j = MaxNodes \/ Level(n, v, j + 1) = {}}
             Last(j) == Level(n, v, j) # {} /\ (j = MaxNodes \/ Level(n, v, j + 1) = {})
  <1>1. PICK m \in T : \A k \in T : m <= k
    <2>1. MaxNodes \in T
      OBVIOUS
    <2> QED
      BY <2>1, LeastNat
  <1>2. m \in 0 .. MaxNodes
    <2>1. MaxNodes \in T
      OBVIOUS
    <2> QED
      BY <1>1, <2>1
  <1>3. Level(n, v, m) # {}
    <2>1. CASE m = 0
      BY <2>1, LevelIs
    <2>2. CASE m # 0
      <3>1. m - 1 \in Nat /\ ~(m <= m - 1) /\ (m - 1) + 1 = m
        BY <1>2, <2>2
      <3>2. m - 1 \notin T
        BY <1>1, <3>1
      <3> QED
        BY <3>1, <3>2
    <2> QED
      BY <2>1, <2>2
  <1>4. Last(m)
    BY <1>1, <1>3
  <1> HIDE DEF T
  <1>5. h = CHOOSE j \in 0 .. MaxNodes : Last(j)
    BY DEF mut_height
  <1> HIDE DEF Last
  <1>6. h \in 0 .. MaxNodes /\ Last(h)
    BY <1>2, <1>4, <1>5
  <1> QED
    BY <1>6 DEF Last

\* A node lies in its own subtree.
LEMMA InOwnSubtree ==
  ASSUME NEW n, NEW v \in Id
  PROVE  v \in Subtree(n, v)
  <1> DEFINE S == [SUBSET Id -> SUBSET Id]
             down(front) == UNION {Children(n, x) : x \in front}
             a == [front \in SUBSET Id |-> front]
             step(F) == [front \in SUBSET Id |->
                           IF front = {} THEN front ELSE front \union F[down(front)]]
             g == [F \in S |-> step(F)]
             body(F, k) == [front \in SUBSET Id |->
                              IF k = 0 \/ front = {} THEN front
                              ELSE front \union F[down(front)]]
             Is(b) == b = [k \in Nat |-> body(b[k - 1], k)]
             below == CHOOSE b : Is(b)
  <1>1. \A front \in SUBSET Id : down(front) \in SUBSET Id
    BY DEF Children
  <1> HIDE DEF down
  <1>2. a \in S /\ g \in [S -> S]
    <2>1. ASSUME NEW F \in S PROVE step(F) \in S
      BY <1>1
    <2> HIDE DEF step
    <2> QED
      BY <2>1
  <1>3. PICK f \in [Nat -> S] : f[0] = a /\ \A k \in Nat : f[k + 1] = g[f[k]]
    <2> HIDE DEF S, a, g
    <2> QED
      BY <1>2, Iterate
  <1>4. ASSUME NEW k \in Nat PROVE f[k] = body(f[k - 1], k)
    <2>1. CASE k = 0
      BY <1>3, <2>1
    <2>2. CASE k # 0
      <3>1. k - 1 \in Nat /\ k = (k - 1) + 1
        BY <2>2
      <3>2. f[k] = g[f[k - 1]] /\ f[k - 1] \in S
        BY <1>3, <3>1
      <3>3. f[k] = step(f[k - 1])
        BY <3>2
      <3> QED
        BY <2>2, <3>3
    <2> QED
      BY <2>1, <2>2
  <1>5. Is(f)
    <2> HIDE DEF body
    <2>1. f = [k \in Nat |-> f[k]]
      BY <1>3
    <2> QED
      BY <1>4, <2>1
  <1>6. Is(below)
    <2> HIDE DEF Is
    <2> QED
      BY <1>5
  <1>7. Subtree(n, v) = below[MaxNodes][{v}]
    BY DEF Subtree, down
  <1> HIDE DEF below
  <1>8. below[MaxNodes] = body(below[MaxNodes - 1], MaxNodes)
    <2> HIDE DEF body
    <2> QED
      BY <1>6
  <1>9. below[MaxNodes][{v}] = {v} \union below[MaxNodes - 1][down({v})]
    BY <1>8
  <1> QED
    BY <1>7, <1>9

-----------------------------------------------------------------------------
(* Depths that grow along the chains keep the levels under the cap.        *)

\* The children of a node are the entries of its list.
LEMMA SoundKids ==
  ASSUME NEW n \in [Id -> DNode], NEW L \in SUBSET Id, NEW K, Sound(n, L, K), NEW p \in L
  PROVE  /\ Children(n, p) = {K[p][i] : i \in 1 .. Len(K[p])}
         /\ Children(n, p) \subseteq L
  <1>1. ChildSeq(n, p) = K[p]
    <2>1. Sound(n, L, K) /\ n \in [Id -> DNode] /\ L \in SUBSET Id
      OBVIOUS
    <2> QED
      BY <2>1, SoundWalk
  <1>2. K[p] \in Seq(L)
    BY DEF Sound
  <1>3. DOMAIN K[p] = 1 .. Len(K[p]) /\ \A i \in 1 .. Len(K[p]) : K[p][i] \in L
    BY <1>2
  <1>4. Elems(K[p]) = {K[p][i] : i \in 1 .. Len(K[p])}
    BY <1>3 DEF Elems
  <1>5. Children(n, p) = Id \intersect Elems(K[p])
    BY <1>1 DEF Children
  <1> QED
    BY <1>3, <1>4, <1>5

\* What the depths say of one place.
LEMMA LeveledAt ==
  ASSUME NEW n, NEW L, NEW K, Leveled(n, L, K), NEW p \in L, NEW i \in 1 .. Len(K[p])
  PROVE  BelowParent(n, p, i, K[p][i])
  BY DEF Leveled

\* A node j levels below another is recorded at a depth of j or more.
LEMMA DepthsReach ==
  ASSUME NEW n \in [Id -> DNode], NEW L \in SUBSET Id, NEW K, Sound(n, L, K), Leveled(n, L, K),
         NEW v \in L
  PROVE  \A j \in Nat : \A x \in Level(n, v, j) : x \in L /\ n[x].depth >= j
  <1> DEFINE T == {j \in Nat : \A x \in Level(n, v, j) : x \in L /\ n[x].depth >= j}
  <1>0. v \in Id /\ \A x \in L : n[x].depth \in Nat
    BY DEF DNode, U16
  <1>1. 0 \in T
    BY <1>0, LevelIs
  <1>2. ASSUME NEW j \in Nat, j \in T PROVE j + 1 \in T
    <2>1. ASSUME NEW x \in Level(n, v, j + 1) PROVE x \in L /\ n[x].depth >= j + 1
      <3>1. PICK p \in Level(n, v, j) : x \in Children(n, p)
        BY <1>0, LevelParent
      <3>2. p \in L /\ n[p].depth >= j
        BY <1>2
      <3>3. x \in L /\ \E i \in 1 .. Len(K[p]) : K[p][i] = x
        <4>1. Children(n, p) = {K[p][i] : i \in 1 .. Len(K[p])} /\ Children(n, p) \subseteq L
          BY <3>2, SoundKids
        <4> QED
          BY <3>1, <4>1
      <3>4. PICK i \in 1 .. Len(K[p]) : K[p][i] = x
        BY <3>3
      <3>5. n[p].depth < n[x].depth
        <4>1. BelowParent(n, p, i, K[p][i])
          <5>1. Leveled(n, L, K)
            OBVIOUS
          <5> QED
            BY <3>2, <3>4, <5>1, LeveledAt
        <4> QED
          BY <3>4, <4>1 DEF BelowParent
      <3> QED
        BY <1>0, <3>2, <3>3, <3>5
    <2> QED
      BY <2>1
  <1>3. Nat \subseteq T
    <2> HIDE DEF T
    <2> QED
      BY <1>1, <1>2, SetInduction
  <1> QED
    BY <1>3

\* No level lies below the cap.
LEMMA LevelsCapped ==
  ASSUME NEW n \in [Id -> DNode], NEW L \in SUBSET Id, NEW K, Sound(n, L, K), Leveled(n, L, K),
         NEW v \in L, NEW j \in Nat, Level(n, v, j) # {}
  PROVE  j <= MaxDepth
  <1>1. CASE j = 0
    BY <1>1
  <1>2. CASE j # 0
    <2>1. j - 1 \in Nat /\ j = (j - 1) + 1 /\ v \in Id
      BY <1>2
    <2>2. PICK x : x \in Level(n, v, (j - 1) + 1)
      BY <2>1
    <2>3. PICK p \in Level(n, v, j - 1) : x \in Children(n, p)
      BY <2>1, <2>2, LevelParent
    <2>4. p \in L /\ n[p].depth >= j - 1
      BY <2>1, <2>3, DepthsReach
    <2>5. PICK i \in 1 .. Len(K[p]) : K[p][i] = x
      <3>1. Children(n, p) = {K[p][i] : i \in 1 .. Len(K[p])} /\ Children(n, p) \subseteq L
        BY <2>4, SoundKids
      <3> QED
        BY <2>3, <3>1
    <2>6. n[p].depth < MaxDepth /\ n[p].depth \in Nat
      <3>1. BelowParent(n, p, i, K[p][i])
        <4>1. Leveled(n, L, K)
          OBVIOUS
        <4> QED
          BY <2>4, <2>5, <4>1, LeveledAt
      <3> QED
        BY <2>4, <3>1 DEF BelowParent, DNode, U16
    <2> QED
      BY <2>1, <2>4, <2>6
  <1> QED
    BY <1>1, <1>2

\* Below a node without a parent every node lies on one level.
LEMMA LevelsApart ==
  ASSUME NEW n \in [Id -> DNode], NEW L \in SUBSET Id, NEW K, Sound(n, L, K), Leveled(n, L, K),
         NEW r \in L, Loose(K, r)
  PROVE  \A j, k \in Nat : \A x : x \in Level(n, r, j) /\ x \in Level(n, r, k) => j = k
  <1> DEFINE T == {j \in Nat : \A k \in Nat : \A x :
                     x \in Level(n, r, j) /\ x \in Level(n, r, k) => j = k}
  <1>0. r \in Id /\ Level(n, r, 0) = {r} /\ OnePlace(K)
    BY LevelIs DEF Sound
  <1>1. ASSUME NEW j \in Nat, NEW x \in Level(n, r, j + 1)
        PROVE  \E p \in Level(n, r, j) : p \in L /\ \E i \in 1 .. Len(K[p]) : K[p][i] = x
    <2>1. PICK p \in Level(n, r, j) : x \in Children(n, p)
      BY <1>0, <1>1, LevelParent
    <2>2. p \in L
      BY <2>1, DepthsReach
    <2>3. Children(n, p) = {K[p][i] : i \in 1 .. Len(K[p])} /\ Children(n, p) \subseteq L
      BY <2>2, SoundKids
    <2> QED
      BY <2>1, <2>2, <2>3
  <1>2. ASSUME NEW j \in Nat PROVE r \notin Level(n, r, j + 1)
    BY <1>1 DEF Loose
  <1>3. ASSUME NEW k \in Nat, k # 0 PROVE k - 1 \in Nat /\ k = (k - 1) + 1
    BY <1>3
  <1>4. 0 \in T
    <2>1. ASSUME NEW k \in Nat, k # 0 PROVE r \notin Level(n, r, k)
      <3>1. k - 1 \in Nat /\ k = (k - 1) + 1
        BY <1>3, <2>1
      <3>2. r \notin Level(n, r, (k - 1) + 1)
        BY <1>2, <3>1
      <3> QED
        BY <3>1, <3>2
    <2> QED
      BY <1>0, <2>1
  <1>5. ASSUME NEW j \in Nat, j \in T PROVE j + 1 \in T
    <2>1. ASSUME NEW k \in Nat, NEW x, x \in Level(n, r, j + 1), x \in Level(n, r, k)
          PROVE  j + 1 = k
      <3>1. k # 0
        BY <1>0, <1>2, <2>1
      <3>2. k - 1 \in Nat /\ k = (k - 1) + 1
        BY <1>3, <3>1
      <3>3. PICK p \in Level(n, r, j) : p \in L /\ \E i \in 1 .. Len(K[p]) : K[p][i] = x
        BY <1>1, <2>1
      <3>4. PICK q \in Level(n, r, k - 1) : q \in L /\ \E i \in 1 .. Len(K[q]) : K[q][i] = x
        <4> DEFINE l == k - 1
        <4>1. l \in Nat /\ x \in Level(n, r, l + 1)
          BY <2>1, <3>2
        <4> QED
          BY <1>1, <4>1
      <3>5. p = q
        BY <1>0, <3>3, <3>4 DEF OnePlace
      <3>6. j = k - 1
        BY <1>5, <3>2, <3>3, <3>4, <3>5
      <3> QED
        BY <3>2, <3>6
    <2> QED
      BY <2>1
  <1>6. Nat \subseteq T
    <2> HIDE DEF T
    <2> QED
      BY <1>4, <1>5, SetInduction
  <1> QED
    BY <1>6

\* A level with nodes has nodes on every level above it.
LEMMA LevelsFull ==
  ASSUME NEW n, NEW v \in Id, NEW d \in Nat, Level(n, v, d) # {}
  PROVE  \A j \in 0 .. d : Level(n, v, j) # {}
  <1> DEFINE T == {j \in Nat : j <= d => Level(n, v, d - j) # {}}
  <1>1. 0 \in T
    OBVIOUS
  <1>2. ASSUME NEW j \in Nat, j \in T PROVE j + 1 \in T
    <2>1. ASSUME j + 1 <= d PROVE Level(n, v, d - (j + 1)) # {}
      <3> DEFINE k == d - (j + 1)
      <3>1. k \in Nat /\ k + 1 = d - j /\ j <= d
        BY <2>1
      <3>2. Level(n, v, k + 1) # {}
        BY <1>2, <3>1
      <3> HIDE DEF k
      <3>3. PICK x : x \in Level(n, v, k + 1)
        BY <3>2
      <3>4. Level(n, v, k) # {}
        BY <3>1, <3>3, LevelParent
      <3> QED
        BY <3>4 DEF k
    <2> QED
      BY <2>1
  <1>3. Nat \subseteq T
    <2> HIDE DEF T
    <2> QED
      BY <1>1, <1>2, SetInduction
  <1>4. ASSUME NEW j \in 0 .. d PROVE Level(n, v, j) # {}
    <2>1. d - j \in Nat /\ d - j <= d /\ d - (d - j) = j
      OBVIOUS
    <2>2. d - j \in T
      BY <1>3, <2>1
    <2> QED
      BY <2>1, <2>2
  <1> QED
    BY <1>4

\* There are fewer levels below a node without a parent than nodes.
LEMMA LevelsFew ==
  ASSUME NEW n \in [Id -> DNode], NEW L \in SUBSET Id, NEW K, Sound(n, L, K), Leveled(n, L, K),
         NEW r \in L, Loose(K, r), NEW d \in Nat, Level(n, r, d) # {}
  PROVE  d < MaxNodes
  <1> DEFINE s == [i \in 1 .. (d + 1) |-> CHOOSE x : x \in Level(n, r, i - 1)]
  <1>1. ASSUME NEW i \in 1 .. (d + 1) PROVE s[i] \in Level(n, r, i - 1) /\ s[i] \in Id
    <2>1. i - 1 \in 0 .. d /\ i - 1 \in Nat
      OBVIOUS
    <2>2. Level(n, r, i - 1) # {} /\ Level(n, r, i - 1) \in SUBSET Id
      BY <2>1, LevelsFull, LevelIs
    <2> QED
      BY <2>2
  <1>2. s \in Seq(Id) /\ Len(s) = d + 1
    BY <1>1
  <1> HIDE DEF s
  <1>3. NoRepeat(s)
    <2>1. ASSUME NEW i \in 1 .. (d + 1), NEW j \in 1 .. (d + 1), s[i] = s[j] PROVE i = j
      <3>1. i - 1 \in Nat /\ j - 1 \in Nat
        OBVIOUS
      <3>2. s[i] \in Level(n, r, i - 1) /\ s[i] \in Level(n, r, j - 1)
        BY <1>1, <2>1
      <3>3. i - 1 = j - 1
        BY <3>1, <3>2, LevelsApart
      <3> QED
        BY <3>3
    <2> QED
      BY <1>2, <2>1 DEF NoRepeat
  <1>4. Len(s) <= MaxNodes
    BY <1>2, <1>3, DistinctShort
  <1> QED
    BY <1>2, <1>4

\* The depth that yep_mut_set_depths writes at x: the level on which it meets x.
LEMMA DepthSet ==
  ASSUME NEW n \in [Id -> DNode], NEW v, NEW d \in Nat, NEW x \in Id
  PROVE  /\ (\A j \in 0 .. MaxNodes : x \notin Level(n, v, j))
              => yep_mut_set_depths(n, v, d)[x] = n[x]
         /\ \A k \in 0 .. MaxNodes :
              /\ x \in Level(n, v, k)
              /\ \A j \in 0 .. MaxNodes : x \in Level(n, v, j) => j = k
              => yep_mut_set_depths(n, v, d)[x].depth = (d + k) % Wrap16
  <1> DEFINE levels == {j \in 0 .. MaxNodes : x \in Level(n, v, j)}
             c == CHOOSE j \in levels : TRUE
  <1>1. yep_mut_set_depths(n, v, d)[x]
          = IF levels = {} THEN n[x] ELSE [n[x] EXCEPT !.depth = (d + c) % Wrap16]
    BY DEF yep_mut_set_depths
  <1>2. n[x] \in DNode
    OBVIOUS
  <1>3. ASSUME \A j \in 0 .. MaxNodes : x \notin Level(n, v, j)
        PROVE  yep_mut_set_depths(n, v, d)[x] = n[x]
    <2>1. levels = {}
      BY <1>3
    <2> QED
      BY <1>1, <2>1
  <1>4. ASSUME NEW k \in 0 .. MaxNodes, x \in Level(n, v, k),
               \A j \in 0 .. MaxNodes : x \in Level(n, v, j) => j = k
        PROVE  yep_mut_set_depths(n, v, d)[x].depth = (d + k) % Wrap16
    <2>1. levels = {k}
      BY <1>4
    <2>2. c = k
      BY <2>1
    <2> HIDE DEF levels, c
    <2>3. yep_mut_set_depths(n, v, d)[x] = [n[x] EXCEPT !.depth = (d + k) % Wrap16]
      BY <1>1, <2>1, <2>2
    <2> QED
      BY <1>2, <2>3 DEF DNode
  <1> QED
    BY <1>3, <1>4

\* One parent and no place for the root: a child of a node outside the levels is outside,
\* a child of a node on a level is on the next.
LEMMA LevelsClosed ==
  ASSUME NEW n \in [Id -> DNode], NEW L \in SUBSET Id, NEW K, Sound(n, L, K), Leveled(n, L, K),
         NEW r \in L, Loose(K, r), NEW p \in L, NEW i \in 1 .. Len(K[p])
  PROVE  /\ \A j \in Nat : p \in Level(n, r, j) => K[p][i] \in Level(n, r, j + 1)
         /\ K[p][i] \notin Level(n, r, 0)
         /\ \A j \in Nat : K[p][i] \in Level(n, r, j + 1) => p \in Level(n, r, j)
  <1>0. r \in Id /\ Level(n, r, 0) = {r} /\ OnePlace(K) /\ p \in Id
    BY LevelIs DEF Sound
  <1>1. Children(n, p) = {K[p][k] : k \in 1 .. Len(K[p])} /\ Children(n, p) \subseteq L
    BY SoundKids
  <1>2. ASSUME NEW j \in Nat, p \in Level(n, r, j) PROVE K[p][i] \in Level(n, r, j + 1)
    <2>1. K[p][i] \in Children(n, p)
      BY <1>1
    <2> QED
      BY <1>0, <1>2, <2>1, LevelParent
  <1>3. K[p][i] \notin Level(n, r, 0)
    BY <1>0 DEF Loose
  <1>4. ASSUME NEW j \in Nat, K[p][i] \in Level(n, r, j + 1) PROVE p \in Level(n, r, j)
    <2>1. PICK q \in Level(n, r, j) : K[p][i] \in Children(n, q)
      BY <1>0, <1>4, LevelParent
    <2>2. q \in L /\ q \in Id
      BY <2>1, DepthsReach
    <2>3. Children(n, q) = {K[q][k] : k \in 1 .. Len(K[q])} /\ Children(n, q) \subseteq L
      BY <2>2, SoundKids
    <2>4. PICK k \in 1 .. Len(K[q]) : K[q][k] = K[p][i]
      BY <2>1, <2>3
    <2>5. p = q
      BY <1>0, <2>2, <2>4 DEF OnePlace
    <2> QED
      BY <2>1, <2>5
  <1> QED
    BY <1>2, <1>3, <1>4

\* Setting the depths below a new root leaves every child deeper than its parent.
LEMMA RootLeveled ==
  ASSUME NEW n \in [Id -> DNode], NEW L \in SUBSET Id, NEW K, Sound(n, L, K), Leveled(n, L, K),
         NEW r \in L, Loose(K, r)
  PROVE  Leveled(yep_mut_set_depths(n, r, 0), L, K)
  <1> DEFINE N == yep_mut_set_depths(n, r, 0)
  <1> SUFFICES ASSUME NEW p \in L, NEW i \in 1 .. Len(K[p]) PROVE BelowParent(N, p, i, K[p][i])
    BY DEF Leveled
  <1> DEFINE c == K[p][i]
  <1>1. p \in Id /\ c \in Id
    <2>1. K[p] \in Seq(L)
      BY DEF Sound
    <2>2. c \in L
      BY <2>1
    <2> QED
      BY <2>2
  <1>2. /\ \A j \in Nat : p \in Level(n, r, j) => c \in Level(n, r, j + 1)
        /\ c \notin Level(n, r, 0)
        /\ \A j \in Nat : c \in Level(n, r, j + 1) => p \in Level(n, r, j)
    BY LevelsClosed
  <1>3. BelowParent(n, p, i, c)
    BY LeveledAt
  <1>4. N[p].kind = n[p].kind
    BY <1>1, SetDepthsFields
  <1> HIDE DEF c
  <1>5. CASE \A j \in 0 .. MaxNodes : p \notin Level(n, r, j)
    <2>1. ASSUME NEW j \in 0 .. MaxNodes PROVE c \notin Level(n, r, j)
      <3>1. CASE j = 0
        BY <1>2, <3>1
      <3>2. CASE j # 0
        <4>1. j - 1 \in Nat /\ j - 1 \in 0 .. MaxNodes /\ j = (j - 1) + 1
          BY <3>2
        <4>2. p \notin Level(n, r, j - 1)
          BY <1>5, <4>1
        <4>3. c \notin Level(n, r, (j - 1) + 1)
          BY <1>2, <4>1, <4>2
        <4> QED
          BY <4>1, <4>3
      <3> QED
        BY <3>1, <3>2
    <2>2. N[p] = n[p]
      BY <1>1, <1>5, DepthSet
    <2>3. N[c] = n[c]
      BY <1>1, <2>1, DepthSet
    <2> HIDE DEF N
    <2> QED
      BY <1>3, <2>2, <2>3 DEF BelowParent, c
  <1>6. CASE \E j \in 0 .. MaxNodes : p \in Level(n, r, j)
    <2>1. PICK j \in 0 .. MaxNodes : p \in Level(n, r, j)
      BY <1>6
    <2>2. c \in Level(n, r, j + 1) /\ j \in Nat /\ j + 1 \in Nat
      BY <1>2, <2>1
    <2>3. j + 1 < MaxNodes
      BY <2>2, LevelsFew
    <2>4. j + 1 <= MaxDepth
      BY <2>2, LevelsCapped
    <2>5. N[p].depth = (0 + j) % Wrap16
      <3>1. \A k \in 0 .. MaxNodes : p \in Level(n, r, k) => k = j
        BY <2>1, <2>2, LevelsApart
      <3> QED
        BY <1>1, <2>1, <3>1, DepthSet
    <2>6. N[c].depth = (0 + (j + 1)) % Wrap16
      <3> DEFINE l == j + 1
      <3>1. l \in 0 .. MaxNodes /\ l \in Nat /\ c \in Level(n, r, l)
        BY <2>2, <2>3
      <3> HIDE DEF l
      <3>2. \A k \in 0 .. MaxNodes : c \in Level(n, r, k) => k = l
        BY <3>1, LevelsApart
      <3>3. N[c].depth = (0 + l) % Wrap16
        BY <1>1, <3>1, <3>2, DepthSet
      <3> QED
        BY <3>3 DEF l
    <2>7. N[p].depth = j /\ N[c].depth = j + 1
      BY <2>2, <2>4, <2>5, <2>6
    <2> HIDE DEF N
    <2> QED
      BY <2>2, <2>4, <2>7 DEF BelowParent, c
  <1> QED
    BY <1>5, <1>6

-----------------------------------------------------------------------------
(* What each primitive writes of the depths.                               *)

\* The cells have the same depths and the same first children.
SameTops(n, N) == \A x \in Id : N[x].depth = n[x].depth /\ N[x].first = n[x].first

\* Only v has another depth, and it is d.
Deepened(n, N, v, d) ==
  /\ N[v].depth = d
  /\ \A x \in Id : x # v => N[x].depth = n[x].depth

\* Writing another field leaves depths and first children alone.
LEMMA TopsKept ==
  ASSUME NEW n \in [Id -> DNode], NEW i, NEW y
  PROVE  /\ SameTops(n, [n EXCEPT ![i].last = y])
         /\ SameTops(n, [n EXCEPT ![i].next = y])
         /\ SameTops(n, [n EXCEPT ![i].count = y])
         /\ SameTops(n, [n EXCEPT ![i].att = y])
  BY DEF SameTops, DNode

\* mut_link records one more than the parent's depth at the child.
LEMMA LinkDepth ==
  ASSUME NEW n \in [Id -> DNode], NEW p \in Id, NEW c \in Id
  PROVE  Deepened(n, mut_link(n, p, c), c, (n[p].depth + 1) % Wrap16)
  <1> DEFINE linked == IF n[p].count = 0 THEN [n EXCEPT ![p].first = c]
                       ELSE [n EXCEPT ![n[p].last].next = c]
             dep == (n[p].depth + 1) % Wrap16
             l == dom_link(n, p, c)
  <1>1. linked \in [Id -> DNode]
    BY FieldTypes DEF Link
  <1>2. \A x \in Id : linked[x].depth = n[x].depth
    BY DEF DNode
  <1>3. l = [linked EXCEPT ![p].last = c, ![p].count = (@ + 1) % Wrap32]
    BY DEF dom_link
  <1> HIDE DEF linked
  <1>4. \A x \in Id : l[x].depth = linked[x].depth
    BY <1>1, <1>3 DEF DNode
  <1>5. l \in [Id -> DNode]
    BY LinkType
  <1>6. mut_link(n, p, c) = [l EXCEPT ![c].att = TRUE, ![c].depth = dep]
    BY DEF mut_link
  <1> HIDE DEF l, dep
  <1>7. mut_link(n, p, c)[c].depth = dep
    <2>1. mut_link(n, p, c)[c] = [l[c] EXCEPT !.att = TRUE, !.depth = dep]
      BY <1>5, <1>6
    <2>2. l[c] \in DNode
      BY <1>5
    <2> QED
      BY <2>1, <2>2 DEF DNode
  <1>8. ASSUME NEW x \in Id, x # c PROVE mut_link(n, p, c)[x].depth = l[x].depth
    BY <1>5, <1>6, <1>8
  <1> QED
    BY <1>2, <1>4, <1>7, <1>8 DEF Deepened, dep

\* unlink_child records no depth.
LEMMA UnlinkDepth ==
  ASSUME NEW n \in [Id -> DNode], NEW p \in Id, NEW c \in Id, CanUnlink(n, p, c), NEW x \in Id
  PROVE  unlink_child(n, p, c)[x].depth = n[x].depth
  <1> DEFINE prev == Prev(n, p, c)
             isFirst == n[p].first = c
             cut == IF isFirst THEN [n EXCEPT ![p].first = n[c].next]
                    ELSE [n EXCEPT ![prev].next = n[c].next]
  <1>1. cut \in [Id -> DNode]
    <2>1. n[c].next \in Link
      BY DEF DNode
    <2> QED
      BY <2>1, FieldTypes
  <1>2. cut[x].depth = n[x].depth
    BY DEF DNode
  <1>3. unlink_child(n, p, c)
          = [cut EXCEPT ![p].last = IF @ # c THEN @ ELSE IF isFirst THEN NIL ELSE prev,
                        ![p].count = (@ - 1) % Wrap32, ![c].next = NIL, ![c].att = FALSE]
    BY Zenon DEF unlink_child, cut
  <1> HIDE DEF cut
  <1>4. unlink_child(n, p, c)[x].depth = cut[x].depth
    BY <1>1, <1>3 DEF DNode
  <1> QED
    BY <1>2, <1>4

\* A cell without a first child has no children.
LEMMA NoFirst ==
  ASSUME NEW n \in [Id -> DNode], NEW v \in Id, n[v].first = NIL
  PROVE  Children(n, v) = {}
  <1>1. Walk(n)[MaxNodes + 1][NIL] = << >>
    <2>1. \A x \in Id : n[x].next \in Link
      BY DEF DNode
    <2>2. MaxNodes + 1 \in Nat /\ NIL \in Link
      BY DEF Link
    <2> QED
      BY <2>1, <2>2, WalkIs
  <1>2. ChildSeq(n, v) = << >>
    BY <1>1, ChildSeqIs
  <1> QED
    BY <1>2 DEF Children, Elems

\* yep_mut_set_depths of a node without children writes its own depth.
LEMMA SetDepthsLeaf ==
  ASSUME NEW n \in [Id -> DNode], NEW v \in Id, n[v].first = NIL, NEW d \in Nat
  PROVE  Deepened(n, yep_mut_set_depths(n, v, d), v, d % Wrap16)
  <1>1. Level(n, v, 0) = {v} /\ \A j \in Nat : j # 0 => Level(n, v, j) = {}
    BY NoFirst, LeafLevels, LevelIs
  <1>2. \A x : \A j \in 0 .. MaxNodes : x \in Level(n, v, j) => x = v /\ j = 0
    BY <1>1
  <1>3. yep_mut_set_depths(n, v, d)[v].depth = (d + 0) % Wrap16
    BY <1>1, <1>2, DepthSet
  <1>4. ASSUME NEW x \in Id, x # v PROVE yep_mut_set_depths(n, v, d)[x] = n[x]
    BY <1>2, <1>4, DepthSet
  <1> QED
    BY <1>3, <1>4 DEF Deepened

\* Equal tops chain.
LEMMA TopsChain ==
  ASSUME NEW a, NEW b, NEW c, SameTops(a, b), SameTops(b, c)
  PROVE  SameTops(a, c)
  BY DEF SameTops

\* yep_mut_seq_set of a value without children records one more than the sequence's depth.
LEMMA SeqSpliceDepth ==
  ASSUME NEW n \in [Id -> DNode], NEW s \in Id, NEW cur \in Id, NEW v \in Id, v # s,
         n[v].first = NIL
  PROVE  Deepened(n, seq_splice(n, s, cur, v), v, (n[s].depth + 1) % Wrap16)
  <1> DEFINE prev == Prev(n, s, cur)
             cut == IF n[s].first = cur THEN [n EXCEPT ![s].first = v]
                    ELSE [n EXCEPT ![prev].next = v]
             nl == IF cut[s].last = cur THEN v ELSE cut[s].last
             nx == n[cur].next
             k1 == [cut EXCEPT ![s].last = nl]
             k2 == [k1 EXCEPT ![v].next = nx]
             k3 == [k2 EXCEPT ![v].att = TRUE]
             k4 == [k3 EXCEPT ![cur].next = NIL]
             k5 == [k4 EXCEPT ![cur].att = FALSE]
             d == n[s].depth + 1
  <1>1. v \in Link /\ nx \in Link /\ NIL \in Link /\ d \in Nat
    BY DEF Link, DNode, U16
  <1>2. cut \in [Id -> DNode]
    BY <1>1, FieldTypes
  <1>3. cut[v].first = NIL /\ \A x \in Id : cut[x].depth = n[x].depth
    BY DEF DNode
  <1>4. seq_splice(n, s, cur, v) = yep_mut_set_depths(k5, v, d)
    BY DEF seq_splice
  <1> HIDE DEF cut
  <1>5. nl \in Link
    BY <1>1, <1>2 DEF DNode
  <1> HIDE DEF nl, nx, d
  <1>6. k1 \in [Id -> DNode] /\ SameTops(cut, k1)
    BY <1>2, <1>5, FieldTypes, TopsKept
  <1> HIDE DEF k1
  <1>7. k2 \in [Id -> DNode] /\ SameTops(k1, k2)
    BY <1>1, <1>6, FieldTypes, TopsKept
  <1> HIDE DEF k2
  <1>8. k3 \in [Id -> DNode] /\ SameTops(k2, k3)
    BY <1>7, FieldTypes, TopsKept
  <1> HIDE DEF k3
  <1>9. k4 \in [Id -> DNode] /\ SameTops(k3, k4)
    BY <1>1, <1>8, FieldTypes, TopsKept
  <1> HIDE DEF k4
  <1>10. k5 \in [Id -> DNode] /\ SameTops(k4, k5)
    BY <1>9, FieldTypes, TopsKept
  <1> HIDE DEF k5
  <1>11. SameTops(cut, k5)
    <2>1. SameTops(cut, k3)
      BY <1>6, <1>7, <1>8, TopsChain
    <2> QED
      BY <1>9, <1>10, <2>1, TopsChain
  <1>12. k5[v].first = NIL /\ \A x \in Id : k5[x].depth = n[x].depth
    BY <1>3, <1>11 DEF SameTops
  <1>13. Deepened(k5, yep_mut_set_depths(k5, v, d), v, d % Wrap16)
    BY <1>1, <1>10, <1>12, SetDepthsLeaf
  <1> QED
    BY <1>4, <1>12, <1>13 DEF Deepened, d

\* yep_mut_map_set of a value without children records one more than the key's depth.
LEMMA MapSpliceDepth ==
  ASSUME NEW n \in [Id -> DNode], NEW m \in Id, NEW k \in Id, NEW v \in Id, n[k].next \in Id,
         n[v].first = NIL
  PROVE  Deepened(n, map_splice(n, m, k, v), v, (n[k].depth + 1) % Wrap16)
  <1> DEFINE old == n[k].next
             nx == n[old].next
             nl == IF n[m].last = old THEN v ELSE n[m].last
             k1 == [n EXCEPT ![old].att = FALSE]
             k2 == [k1 EXCEPT ![v].next = nx]
             k3 == [k2 EXCEPT ![k].next = v]
             k4 == [k3 EXCEPT ![m].last = nl]
             k5 == [k4 EXCEPT ![v].att = TRUE]
             d == n[k].depth + 1
  <1>1. v \in Link /\ nx \in Link /\ nl \in Link /\ d \in Nat
    BY DEF Link, DNode, U16
  <1>2. map_splice(n, m, k, v) = yep_mut_set_depths(k5, v, d)
    BY DEF map_splice
  <1> HIDE DEF old, nl, nx, d
  <1>3. k1 \in [Id -> DNode] /\ SameTops(n, k1)
    BY FieldTypes, TopsKept
  <1> HIDE DEF k1
  <1>4. k2 \in [Id -> DNode] /\ SameTops(k1, k2)
    BY <1>1, <1>3, FieldTypes, TopsKept
  <1> HIDE DEF k2
  <1>5. k3 \in [Id -> DNode] /\ SameTops(k2, k3)
    BY <1>1, <1>4, FieldTypes, TopsKept
  <1> HIDE DEF k3
  <1>6. k4 \in [Id -> DNode] /\ SameTops(k3, k4)
    BY <1>1, <1>5, FieldTypes, TopsKept
  <1> HIDE DEF k4
  <1>7. k5 \in [Id -> DNode] /\ SameTops(k4, k5)
    BY <1>6, FieldTypes, TopsKept
  <1> HIDE DEF k5
  <1>8. SameTops(n, k5)
    <2>1. SameTops(n, k3)
      BY <1>3, <1>4, <1>5, TopsChain
    <2> QED
      BY <1>6, <1>7, <2>1, TopsChain
  <1>9. k5[v].first = NIL /\ \A x \in Id : k5[x].depth = n[x].depth
    BY <1>8 DEF SameTops
  <1>10. Deepened(k5, yep_mut_set_depths(k5, v, d), v, d % Wrap16)
    BY <1>1, <1>7, <1>9, SetDepthsLeaf
  <1> QED
    BY <1>2, <1>9, <1>10 DEF Deepened, d

-----------------------------------------------------------------------------
(* A careful edit keeps the depths growing.                                *)

\* Depths are written only at nodes without children that had no place.
Untouched(n, N, L, K, W) ==
  /\ \A x \in L : N[x].kind = n[x].kind
  /\ \A x \in L : x \notin W => N[x].depth = n[x].depth
  /\ \A w \in W : Loose(K, w)
  /\ \A w \in W \intersect L : K[w] = << >>

\* Every entry of the list t of p is deeper than p.
AllBelow(n, p, t) == \A i \in 1 .. Len(t) : BelowParent(n, p, i, t[i])

\* What was deeper than its parent still is.
LEMMA StillBelow ==
  ASSUME NEW n, NEW N, NEW L, NEW K \in [Id -> Seq(L)], Leveled(n, L, K), NEW W,
         Untouched(n, N, L, K, W), NEW p \in L, p \in Id
  PROVE  AllBelow(N, p, K[p])
  <1> SUFFICES ASSUME NEW i \in 1 .. Len(K[p]) PROVE BelowParent(N, p, i, K[p][i])
    BY DEF AllBelow
  <1>1. K[p] \in Seq(L)
    OBVIOUS
  <1>2. K[p][i] \in L /\ K[p][i] \notin W
    <2>1. K[p][i] \in L
      BY <1>1
    <2>2. \A w \in W : K[p][i] # w
      BY DEF Untouched, Loose
    <2> QED
      BY <2>1, <2>2
  <1>3. p \notin W
    <2>1. K[p] # << >>
      OBVIOUS
    <2> QED
      BY <2>1 DEF Untouched
  <1>4. N[p].depth = n[p].depth /\ N[p].kind = n[p].kind /\ N[K[p][i]].depth = n[K[p][i]].depth
    BY <1>2, <1>3 DEF Untouched
  <1>5. BelowParent(n, p, i, K[p][i])
    <2>1. Leveled(n, L, K)
      OBVIOUS
    <2> QED
      BY <2>1, LeveledAt
  <1> QED
    BY <1>4, <1>5 DEF BelowParent

\* The depths stay right when one list is edited, if depths are written only at nodes
\* without children that had no place.
LEMMA LeveledAfter ==
  ASSUME NEW n, NEW N, NEW L, NEW M \in SUBSET Id, NEW K \in [Id -> Seq(L)], Leveled(n, L, K),
         \A q \in Id \ L : K[q] = << >>, NEW W, Untouched(n, N, L, K, W),
         NEW p \in Id, NEW t, AllBelow(N, p, t)
  PROVE  Leveled(N, M, [K EXCEPT ![p] = t])
  <1> DEFINE J == [K EXCEPT ![p] = t]
  <1> SUFFICES ASSUME NEW q \in M, NEW i \in 1 .. Len(J[q]) PROVE BelowParent(N, q, i, J[q][i])
    BY DEF Leveled
  <1>1. q \in Id /\ J[p] = t /\ (q # p => J[q] = K[q])
    OBVIOUS
  <1> HIDE DEF J
  <1>2. CASE q = p
    BY <1>1, <1>2 DEF AllBelow
  <1>3. CASE q # p
    <2>1. i \in 1 .. Len(K[q]) /\ J[q] = K[q]
      BY <1>1, <1>3
    <2>2. q \in L
      <3>1. K[q] # << >>
        BY <2>1
      <3> QED
        BY <1>1, <3>1
    <2>3. AllBelow(N, q, K[q])
      <3>1. Leveled(n, L, K) /\ Untouched(n, N, L, K, W)
        OBVIOUS
      <3> QED
        BY <1>1, <2>2, <3>1, StillBelow
    <2> QED
      BY <2>1, <2>3 DEF AllBelow
  <1> QED
    BY <1>2, <1>3

\* A child one deeper than a parent above the cap.
LEMMA JustBelow ==
  ASSUME NEW n, NEW p, NEW i, NEW c, n[p].depth \in Nat, n[p].depth < MaxDepth,
         n[c].depth = n[p].depth + 1
  PROVE  BelowParent(n, p, i, c)
  BY DEF BelowParent

\* Lists of deeper nodes: with one more at the end,
LEMMA BelowAppend ==
  ASSUME NEW n, NEW p, NEW S, NEW s \in Seq(S), NEW c \in S, AllBelow(n, p, s),
         BelowParent(n, p, Len(s) + 1, c)
  PROVE  AllBelow(n, p, Append(s, c))
  <1> SUFFICES ASSUME NEW i \in 1 .. Len(Append(s, c)) PROVE BelowParent(n, p, i, Append(s, c)[i])
    BY DEF AllBelow
  <1>1. CASE i = Len(s) + 1
    BY <1>1
  <1>2. CASE i # Len(s) + 1
    <2>1. i \in 1 .. Len(s) /\ Append(s, c)[i] = s[i]
      BY <1>2
    <2> QED
      BY <2>1 DEF AllBelow
  <1> QED
    BY <1>1, <1>2

\* with one replaced,
LEMMA BelowReplace ==
  ASSUME NEW n, NEW p, NEW S, NEW s \in Seq(S), NEW c \in S, AllBelow(n, p, s),
         NEW h \in 1 .. Len(s), BelowParent(n, p, h, c)
  PROVE  AllBelow(n, p, [s EXCEPT ![h] = c])
  <1> DEFINE t == [s EXCEPT ![h] = c]
  <1>1. Len(t) = Len(s) /\ t[h] = c /\ \A i \in 1 .. Len(s) : i # h => t[i] = s[i]
    OBVIOUS
  <1> HIDE DEF t
  <1>2. AllBelow(n, p, t)
    BY <1>1 DEF AllBelow
  <1> QED
    BY <1>2 DEF t

\* with one taken out of a sequence,
LEMMA BelowWithout ==
  ASSUME NEW n, NEW p, NEW S, NEW s \in Seq(S), AllBelow(n, p, s), NEW h \in 1 .. Len(s),
         n[p].kind # "map"
  PROVE  AllBelow(n, p, Without(s, h))
  <1> DEFINE t == Without(s, h)
  <1>1. /\ Len(t) = Len(s) - 1
        /\ \A j \in 1 .. (Len(s) - 1) : t[j] = IF j < h THEN s[j] ELSE s[j + 1]
    BY WithoutIs, Zenon
  <1> HIDE DEF t
  <1>2. ASSUME NEW i \in 1 .. Len(t) PROVE BelowParent(n, p, i, t[i])
    <2>1. PICK j \in 1 .. Len(s) : t[i] = s[j]
      BY <1>1
    <2>2. BelowParent(n, p, j, s[j])
      BY DEF AllBelow
    <2> QED
      BY <2>1, <2>2 DEF BelowParent
  <1>3. AllBelow(n, p, t)
    BY <1>2 DEF AllBelow
  <1> QED
    BY <1>3 DEF t

\* with a pair taken out of a mapping.
LEMMA BelowPairOut ==
  ASSUME NEW n, NEW p, NEW S, NEW s \in Seq(S), AllBelow(n, p, s), NEW h \in 1 .. Len(s),
         h + 1 \in 1 .. Len(s)
  PROVE  AllBelow(n, p, Without(Without(s, h), h))
  <1> DEFINE u == Without(s, h)
             t == Without(u, h)
  <1>1. /\ u \in Seq(S) /\ Len(u) = Len(s) - 1
        /\ \A j \in 1 .. (Len(s) - 1) : u[j] = IF j < h THEN s[j] ELSE s[j + 1]
    BY WithoutIs, Zenon
  <1> HIDE DEF u
  <1>2. h \in 1 .. Len(u)
    BY <1>1
  <1>3. /\ Len(t) = Len(u) - 1
        /\ \A j \in 1 .. (Len(u) - 1) : t[j] = IF j < h THEN u[j] ELSE u[j + 1]
    BY <1>1, <1>2, WithoutIs, Zenon
  <1> HIDE DEF t
  <1>4. ASSUME NEW i \in 1 .. Len(t) PROVE BelowParent(n, p, i, t[i])
    <2>1. CASE i < h
      <3>1. t[i] = s[i] /\ i \in 1 .. Len(s)
        BY <1>1, <1>3, <2>1
      <3> QED
        BY <3>1 DEF AllBelow
    <2>2. CASE ~(i < h)
      <3>1. t[i] = s[i + 2] /\ i + 2 \in 1 .. Len(s) /\ (i + 2) % 2 = i % 2
        BY <1>1, <1>3, <2>2
      <3>2. BelowParent(n, p, i + 2, s[i + 2])
        BY <3>1 DEF AllBelow
      <3> QED
        BY <3>1, <3>2 DEF BelowParent
    <2> QED
      BY <2>1, <2>2
  <1>5. AllBelow(n, p, t)
    BY <1>4 DEF AllBelow
  <1> QED
    BY <1>5 DEF t, u

\* The host attaches nodes without children, and none above themselves.
Gentle == Careful /\ "graft" \notin Liberties /\ "cycle" \notin Liberties

\* The nodes in use after a step are nodes.
LEMMA LiveAfter ==
  ASSUME TypeOK'
  PROVE  Live' \in SUBSET Id
  <1>1. ncount' \in 0 .. MaxNodes
    BY DEF TypeOK
  <1>2. ASSUME NEW a \in 0 .. MaxNodes
        PROVE  0 .. (a - 1) \in SUBSET Id
    <2>1. a <= a
      OBVIOUS
    <2> QED
      BY <2>1, RangesNest
  <1>3. Live' = 0 .. (ncount' - 1)
    BY DEF Live
  <1> QED
    BY <1>1, <1>2, <1>3, Zenon

\* An edit of one list keeps the depths right.
LEMMA LevelStep ==
  ASSUME DocumentInv, TypeOK', LevelInv, NEW K, Lists(nodes, ncount) = K, NEW p \in Live, NEW t,
         Lists(nodes', ncount') = [K EXCEPT ![p] = t],
         NEW W, Untouched(nodes, nodes', Live, K, W), AllBelow(nodes', p, t)
  PROVE  LevelInv'
  <1>1. Sound(nodes, Live, K) /\ Live \in SUBSET Id
    BY WholeIs DEF Kept
  <1>2. K \in [Id -> Seq(Live)] /\ (\A q \in Id \ Live : K[q] = << >>) /\ p \in Id
    BY <1>1 DEF Sound
  <1>3. Leveled(nodes, Live, K)
    BY DEF LevelInv
  <1>4. Live' \in SUBSET Id
    BY LiveAfter
  <1>5. Leveled(nodes', Live', [K EXCEPT ![p] = t])
    BY <1>2, <1>3, <1>4, LeveledAfter
  <1> QED
    BY <1>5 DEF LevelInv

\* What the depths of a list in use say, from the state alone.
LEMMA BelowNow ==
  ASSUME DocumentInv, LevelInv, NEW K, Lists(nodes, ncount) = K, NEW p \in Live, NEW W, NEW N,
         Untouched(nodes, N, Live, K, W)
  PROVE  AllBelow(N, p, K[p])
  <1>1. Sound(nodes, Live, K) /\ Live \in SUBSET Id
    BY WholeIs DEF Kept
  <1>2. K \in [Id -> Seq(Live)] /\ p \in Id
    BY <1>1 DEF Sound
  <1>3. Leveled(nodes, Live, K)
    BY DEF LevelInv
  <1> QED
    BY <1>2, <1>3, StillBelow

\* A free node without children may take a depth.
LEMMA FreeLeaf ==
  ASSUME DocumentInv, Gentle, NEW K, Lists(nodes, ncount) = K, NEW p, NEW v \in Live,
         HostMayAttach(p, v), ~Placed(K, docs, v)
  PROVE  nodes[v].first = NIL /\ K[v] = << >> /\ Loose(K, v) /\ p # v
  <1>1. ListOf(nodes, Live, v, K[v]) /\ nodes[v].count = Len(K[v]) /\ v \in Id
    BY KidsOf
  <1>2. K[v] = << >>
    <2>1. nodes[v].count = 0
      BY DEF Gentle, HostMayAttach
    <2>2. K[v] \in Seq(Live) /\ Len(K[v]) = 0
      BY <1>1, <2>1 DEF ListOf
    <2> QED
      BY <2>2
  <1>3. nodes[v].first = NIL
    BY <1>1, <1>2 DEF ListOf, Spells, Chain, After
  <1>4. Loose(K, v)
    BY DEF Placed, Loose
  <1>5. p # v
    <2>1. p \notin Subtree(nodes, v)
      BY DEF Gentle, HostMayAttach
    <2> QED
      BY <1>1, <2>1, InOwnSubtree
  <1> QED
    BY <1>2, <1>3, <1>4, <1>5

\* mut_attach_ok leaves room under the cap.
LEMMA RoomBelow ==
  ASSUME TypeOK, NEW p \in Id, NEW v \in Id, mut_attach_ok(nodes, ncount, p, v)
  PROVE  /\ nodes[p].depth \in Nat /\ nodes[p].depth < MaxDepth
         /\ (nodes[p].depth + 1) % Wrap16 = nodes[p].depth + 1
  <1>1. mut_height(nodes, v) \in Nat
    BY HeightIs
  <1>2. nodes[p].depth \in Nat
    BY DEF TypeOK, DNode, U16
  <1>3. ~(nodes[p].depth + 1 + mut_height(nodes, v) > MaxDepth)
    BY DEF mut_attach_ok, TooDeep
  <1>4. nodes[p].depth < MaxDepth
    BY <1>1, <1>2, <1>3
  <1> QED
    BY <1>2, <1>4

\* yeptris_node_seq_add,
LEMMA SeqAddLevels ==
  ASSUME DocumentInv, TypeOK', Gentle, LevelInv, NEW s \in Live, NEW v \in Live, SeqAdd(s, v)
  PROVE  LevelInv'
  <1> DEFINE K == Lists(nodes, ncount)
  <1>1. Lists(nodes', ncount') = [K EXCEPT ![s] = Append(ChildSeq(nodes, s), v)]
    BY SeqAddEdits DEF Gentle
  <1>2. ChildSeq(nodes, s) = K[s] /\ K[s] \in Seq(Live) /\ s \in Id /\ v \in Id
    BY KidsOf DEF ListOf
  <1>3. nodes \in [Id -> DNode] /\ Live \in SUBSET Id /\ TypeOK
    BY WholeIs DEF DocumentInv
  <1>4. ~Placed(K, docs, v)
    BY AttachFree DEF SeqAdd, Gentle
  <1> HIDE DEF K
  <1>5. K[v] = << >> /\ Loose(K, v) /\ s # v
    BY <1>4, FreeLeaf DEF SeqAdd, K
  <1>6. /\ nodes[s].depth \in Nat /\ nodes[s].depth < MaxDepth
        /\ (nodes[s].depth + 1) % Wrap16 = nodes[s].depth + 1
    BY <1>2, <1>3, RoomBelow DEF SeqAdd
  <1>7. nodes' = mut_link(nodes, s, v)
    BY DEF SeqAdd
  <1>8. Deepened(nodes, nodes', v, nodes[s].depth + 1)
    BY <1>2, <1>3, <1>6, <1>7, LinkDepth
  <1>9. \A x \in Live : SameKey(nodes, nodes', x)
    BY <1>2, <1>3, <1>7, LinkSameKey
  <1>10. Untouched(nodes, nodes', Live, K, {v})
    BY <1>3, <1>5, <1>8, <1>9 DEF Untouched, Deepened, SameKey
  <1>11. AllBelow(nodes', s, K[s])
    BY <1>10, BelowNow DEF K
  <1>12. BelowParent(nodes', s, Len(K[s]) + 1, v)
    <2>1. nodes'[s].depth = nodes[s].depth /\ nodes'[v].depth = nodes[s].depth + 1
      BY <1>2, <1>5, <1>8 DEF Deepened
    <2> QED
      BY <1>6, <2>1, JustBelow
  <1>13. AllBelow(nodes', s, Append(K[s], v))
    BY <1>2, <1>11, <1>12, BelowAppend
  <1>14. Lists(nodes', ncount') = [K EXCEPT ![s] = Append(K[s], v)]
    BY <1>1, <1>2
  <1> QED
    BY <1>10, <1>13, <1>14, LevelStep DEF K

\* yeptris_node_seq_set,
LEMMA SeqSetLevels ==
  ASSUME DocumentInv, TypeOK', Gentle, LevelInv, NEW s \in Live, NEW v \in Live,
         NEW index \in 0 .. MaxNodes, SeqSet(s, index, v)
  PROVE  LevelInv'
  <1> DEFINE K == Lists(nodes, ncount)
             i == index + 1
  <1>1. /\ Edited(s)
        /\ Lists(nodes', ncount') = [K EXCEPT ![s] = [ChildSeq(nodes, s) EXCEPT ![i] = v]]
    BY SeqSetEdits DEF Gentle
  <1>2. /\ ChildSeq(nodes, s) = K[s] /\ K[s] \in Seq(Live) /\ s \in Id /\ v \in Id
        /\ nodes[s].count = Len(K[s])
    BY KidsOf DEF ListOf
  <1>3. nodes \in [Id -> DNode] /\ Live \in SUBSET Id /\ TypeOK
    BY WholeIs DEF DocumentInv
  <1>4. ~Placed(K, docs, v)
    BY AttachFree DEF SeqSet, Gentle
  <1> HIDE DEF K
  <1>5. K[v] = << >> /\ Loose(K, v) /\ s # v /\ nodes[v].first = NIL
    BY <1>4, FreeLeaf DEF SeqSet, K
  <1>6. /\ nodes[s].depth \in Nat /\ nodes[s].depth < MaxDepth
        /\ (nodes[s].depth + 1) % Wrap16 = nodes[s].depth + 1
    BY <1>2, <1>3, RoomBelow DEF SeqSet
  <1>7. PICK cur \in Id : nodes' = seq_splice(nodes, s, cur, v)
    BY DEF SeqSet
  <1>8. Deepened(nodes, nodes', v, nodes[s].depth + 1)
    BY <1>2, <1>3, <1>5, <1>6, <1>7, SeqSpliceDepth
  <1>9. \A x \in Live : SameKey(nodes, nodes', x)
    BY <1>1 DEF Edited
  <1>10. Untouched(nodes, nodes', Live, K, {v})
    BY <1>3, <1>5, <1>8, <1>9 DEF Untouched, Deepened, SameKey
  <1>11. AllBelow(nodes', s, K[s])
    BY <1>10, BelowNow DEF K
  <1>12. i \in 1 .. Len(K[s])
    BY <1>2 DEF SeqSet
  <1> HIDE DEF i
  <1>14. BelowParent(nodes', s, i, v)
    <2>1. nodes'[s].depth = nodes[s].depth /\ nodes'[v].depth = nodes[s].depth + 1
      BY <1>2, <1>5, <1>8 DEF Deepened
    <2> QED
      BY <1>6, <2>1, JustBelow
  <1>15. AllBelow(nodes', s, [K[s] EXCEPT ![i] = v])
    BY <1>2, <1>11, <1>12, <1>14, BelowReplace
  <1>16. Lists(nodes', ncount') = [K EXCEPT ![s] = [K[s] EXCEPT ![i] = v]]
    BY <1>1, <1>2
  <1> QED
    BY <1>10, <1>15, <1>16, LevelStep DEF K

\* yeptris_node_seq_del,
LEMMA SeqDelLevels ==
  ASSUME DocumentInv, TypeOK', LevelInv, NEW s \in Live, NEW index \in 0 .. MaxNodes,
         SeqDel(s, index)
  PROVE  LevelInv'
  <1> DEFINE K == Lists(nodes, ncount)
             i == index + 1
  <1>1. /\ Edited(s)
        /\ Lists(nodes', ncount') = [K EXCEPT ![s] = Without(ChildSeq(nodes, s), i)]
    BY SeqDelEdits
  <1>2. /\ ChildSeq(nodes, s) = K[s] /\ K[s] \in Seq(Live) /\ s \in Id
        /\ nodes[s].count = Len(K[s])
    BY KidsOf DEF ListOf
  <1>3. nodes \in [Id -> DNode] /\ Live \in SUBSET Id
    BY WholeIs
  <1> HIDE DEF K
  <1>4. PICK c \in Id : CanUnlink(nodes, s, c) /\ nodes' = unlink_child(nodes, s, c)
    BY DEF SeqDel
  <1>5. \A x \in Id : nodes'[x].depth = nodes[x].depth
    BY <1>2, <1>3, <1>4, UnlinkDepth
  <1>6. \A x \in Live : SameKey(nodes, nodes', x)
    BY <1>1 DEF Edited
  <1>7. Untouched(nodes, nodes', Live, K, {})
    BY <1>3, <1>5, <1>6 DEF Untouched, SameKey
  <1>8. AllBelow(nodes', s, K[s])
    BY <1>7, BelowNow DEF K
  <1>9. i \in 1 .. Len(K[s]) /\ nodes[s].kind = "seq"
    BY <1>2 DEF SeqDel, IsSeq
  <1>10. nodes'[s].kind # "map"
    BY <1>6, <1>9 DEF SameKey
  <1> HIDE DEF i
  <1>11. AllBelow(nodes', s, Without(K[s], i))
    BY <1>2, <1>8, <1>9, <1>10, BelowWithout
  <1>12. Lists(nodes', ncount') = [K EXCEPT ![s] = Without(K[s], i)]
    BY <1>1, <1>2
  <1> QED
    BY <1>7, <1>11, <1>12, LevelStep DEF K

\* A pair of links records the same depth at key and value.
LEMMA PairDepth ==
  ASSUME NEW n \in [Id -> DNode], NEW m \in Id, NEW k \in Id, NEW v \in Id, m # k, m # v, k # v,
         NEW N, N = mut_link(mut_link(n, m, k), m, v),
         NEW d, d = n[m].depth, (d + 1) % Wrap16 = d + 1
  PROVE  /\ N[k].depth = d + 1 /\ N[v].depth = d + 1
         /\ \A x \in Id : x # k /\ x # v => N[x].depth = n[x].depth
  <1> DEFINE n1 == mut_link(n, m, k)
  <1>1. n1 \in [Id -> DNode]
    BY MutLinkType
  <1>2. Deepened(n, n1, k, d + 1)
    BY LinkDepth
  <1> HIDE DEF n1
  <1>3. n1[m].depth = d
    BY <1>2 DEF Deepened
  <1>4. Deepened(n1, mut_link(n1, m, v), v, d + 1)
    BY <1>1, <1>3, LinkDepth
  <1>5. Deepened(n1, N, v, d + 1)
    BY <1>4 DEF n1
  <1> QED
    BY <1>2, <1>5 DEF Deepened

\* Key and value lie one below their mapping, which is above the cap.
PairAt(n, m, k, v) ==
  /\ n[m].depth \in Nat /\ n[m].depth < MaxDepth
  /\ n[k].depth = n[m].depth + 1 /\ n[v].depth = n[m].depth + 1

\* A pair placed at the end of a mapping above the cap.
LEMMA PairLevels ==
  ASSUME DocumentInv, TypeOK', LevelInv, NEW K, Lists(nodes, ncount) = K, NEW m \in Live,
         NEW k \in Id, NEW v \in Id, Untouched(nodes, nodes', Live, K, {k, v}),
         Lists(nodes', ncount') = [K EXCEPT ![m] = Append(Append(ChildSeq(nodes, m), k), v)],
         PairAt(nodes', m, k, v)
  PROVE  LevelInv'
  <1>1. ChildSeq(nodes, m) = K[m] /\ K[m] \in Seq(Id)
    BY KidsOf DEF ListOf
  <1>2. AllBelow(nodes', m, K[m])
    BY BelowNow
  <1>3. \A i : BelowParent(nodes', m, i, k) /\ BelowParent(nodes', m, i, v)
    BY JustBelow DEF PairAt
  <1> DEFINE s == Append(K[m], k)
  <1>4. AllBelow(nodes', m, s) /\ s \in Seq(Id)
    BY <1>1, <1>2, <1>3, BelowAppend
  <1> HIDE DEF s
  <1>5. AllBelow(nodes', m, Append(s, v))
    BY <1>3, <1>4, BelowAppend
  <1>6. Lists(nodes', ncount') = [K EXCEPT ![m] = Append(s, v)]
    BY <1>1 DEF s
  <1> QED
    BY <1>5, <1>6, LevelStep

\* yeptris_node_map_add,
LEMMA MapAddLevels ==
  ASSUME DocumentInv, TypeOK', Gentle, LevelInv, NEW m \in Live, NEW v \in Live, NEW key \in Text,
         MapAdd(m, key, v)
  PROVE  LevelInv'
  <1> DEFINE K == Lists(nodes, ncount)
             keyed == [nodes EXCEPT ![ncount] = Fresh("scalar", key)]
             d == nodes[m].depth
  <1>1. /\ Edited(m)
        /\ Lists(nodes', ncount') = [K EXCEPT ![m] = Append(Append(ChildSeq(nodes, m), ncount), v)]
    BY MapAddEdits DEF Gentle
  <1>2. /\ nodes \in [Id -> DNode] /\ Live \in SUBSET Id /\ TypeOK /\ Sound(nodes, Live, K)
    BY WholeIs DEF DocumentInv, Kept
  <1>3. ncount \in Id /\ ncount \notin Live /\ m \in Id /\ v \in Id
    BY <1>2 DEF MapAdd, PlacePair, CanCreate, TypeOK, Id, Live
  <1>4. ~Placed(K, docs, v)
    BY AttachFree DEF MapAdd, PlacePair, Gentle
  <1>5. K \in [Id -> Seq(Live)]
    BY <1>2 DEF Sound
  <1> HIDE DEF K
  <1>6. K[v] = << >> /\ Loose(K, v) /\ m # v
    BY <1>4, FreeLeaf DEF MapAdd, K
  <1>7. Loose(K, ncount)
    <2>1. ASSUME NEW q \in Id, NEW i \in 1 .. Len(K[q]) PROVE K[q][i] # ncount
      <3>1. K[q] \in Seq(Live)
        BY <1>5
      <3>2. K[q][i] \in Live
        BY <3>1
      <3> QED
        BY <1>3, <3>2
    <2> QED
      BY <2>1 DEF Loose
  <1>8. d \in Nat /\ d < MaxDepth /\ (d + 1) % Wrap16 = d + 1
    BY <1>2, <1>3, RoomBelow DEF MapAdd, PlacePair
  <1>9. keyed \in [Id -> DNode] /\ \A x \in Live : keyed[x] = nodes[x]
    <2>1. Fresh("scalar", key) \in DNode
      BY FreshType DEF Kinds
    <2> QED
      BY <1>2, <1>3, <2>1
  <1>10. nodes' = mut_link(mut_link(keyed, m, ncount), m, v)
    BY DEF MapAdd, PlacePair
  <1> HIDE DEF keyed
  <1>11. /\ nodes'[ncount].depth = d + 1 /\ nodes'[v].depth = d + 1
         /\ \A x \in Id : x # ncount /\ x # v => nodes'[x].depth = keyed[x].depth
    BY <1>3, <1>6, <1>8, <1>9, <1>10, PairDepth
  <1>12. \A x \in Live : SameKey(nodes, nodes', x)
    BY <1>1 DEF Edited
  <1>13. nodes'[m].depth = d
    BY <1>3, <1>6, <1>9, <1>11
  <1>14. Untouched(nodes, nodes', Live, K, {ncount, v})
    BY <1>2, <1>3, <1>6, <1>7, <1>9, <1>11, <1>12 DEF Untouched, SameKey
  <1>15. PairAt(nodes', m, ncount, v)
    BY <1>8, <1>11, <1>13 DEF PairAt
  <1> QED
    BY <1>1, <1>3, <1>14, <1>15, PairLevels DEF K

\* yeptris_node_map_add_node,
LEMMA MapAddNodeLevels ==
  ASSUME DocumentInv, TypeOK', Gentle, LevelInv, NEW m \in Live, NEW k \in Live, NEW v \in Live,
         MapAddNode(m, k, v)
  PROVE  LevelInv'
  <1> DEFINE K == Lists(nodes, ncount)
             d == nodes[m].depth
  <1>1. /\ Edited(m)
        /\ Lists(nodes', ncount') = [K EXCEPT ![m] = Append(Append(ChildSeq(nodes, m), k), v)]
    BY MapAddNodeEdits DEF Gentle
  <1>2. /\ nodes \in [Id -> DNode] /\ Live \in SUBSET Id /\ TypeOK
        /\ m \in Id /\ k \in Id /\ v \in Id
    BY WholeIs DEF DocumentInv
  <1>3. ~Placed(K, docs, v)
    BY AttachFree DEF MapAddNode, Gentle
  <1>4. k # v /\ ~Placed(K, docs, k)
    <2>1. k # v /\ ~nodes[k].att
      BY DEF MapAddNode, HostMayKey, Gentle, Careful
    <2>2. k \notin Start.parsed /\ k \notin displaced
      BY DEF MapAddNode, HostMayAttach, Gentle, Careful
    <2> QED
      BY <2>1, <2>2, FreeNode
  <1> HIDE DEF K
  <1>5. K[v] = << >> /\ Loose(K, v) /\ m # v
    BY <1>3, FreeLeaf DEF MapAddNode, K
  <1>6. K[k] = << >> /\ Loose(K, k) /\ m # k
    BY <1>4, FreeLeaf DEF MapAddNode, K
  <1>7. d \in Nat /\ d < MaxDepth /\ (d + 1) % Wrap16 = d + 1
    BY <1>2, RoomBelow DEF MapAddNode
  <1>8. nodes' = mut_link(mut_link(nodes, m, k), m, v)
    BY DEF MapAddNode
  <1>9. /\ nodes'[k].depth = d + 1 /\ nodes'[v].depth = d + 1
        /\ \A x \in Id : x # k /\ x # v => nodes'[x].depth = nodes[x].depth
    BY <1>2, <1>4, <1>5, <1>6, <1>7, <1>8, PairDepth
  <1>10. \A x \in Live : SameKey(nodes, nodes', x)
    BY <1>1 DEF Edited
  <1>11. nodes'[m].depth = d
    BY <1>2, <1>5, <1>6, <1>9
  <1>12. Untouched(nodes, nodes', Live, K, {k, v})
    BY <1>2, <1>5, <1>6, <1>9, <1>10 DEF Untouched, SameKey
  <1>13. PairAt(nodes', m, k, v)
    BY <1>7, <1>9, <1>11 DEF PairAt
  <1> QED
    BY <1>1, <1>2, <1>12, <1>13, PairLevels DEF K

\* yeptris_node_map_set of a present key: the value is re-depthed from the key,
LEMMA MapReplaceLevels ==
  ASSUME DocumentInv, TypeOK', Gentle, LevelInv, NEW m \in Live, NEW v \in Live, NEW key \in Text,
         MapReplace(m, key, v)
  PROVE  LevelInv'
  <1> DEFINE K == Lists(nodes, ncount)
             d == nodes[m].depth
             k == map_find(nodes, m, key)
  <1>1. /\ Edited(m)
        /\ \E i \in 1 .. Len(ChildSeq(nodes, m)) :
             /\ i % 2 = 0 /\ i - 1 \in 1 .. Len(ChildSeq(nodes, m))
             /\ ChildSeq(nodes, m)[i - 1] = k
             /\ nodes[k].next = ChildSeq(nodes, m)[i]
             /\ Lists(nodes', ncount') = [K EXCEPT ![m] = [ChildSeq(nodes, m) EXCEPT ![i] = v]]
    BY MapReplaceEdits DEF Gentle
  <1>2. ChildSeq(nodes, m) = K[m] /\ K[m] \in Seq(Live) /\ m \in Id /\ v \in Id
    BY KidsOf DEF ListOf
  <1>3. nodes \in [Id -> DNode] /\ Live \in SUBSET Id /\ TypeOK
    BY WholeIs DEF DocumentInv
  <1>4. ~Placed(K, docs, v)
    BY AttachFree DEF MapReplace, Gentle
  <1>5. nodes[m].kind = "map" /\ nodes' = map_splice(nodes, m, k, v)
    BY DEF MapReplace, IsMap
  <1> HIDE DEF K, k
  <1>6. PICK i \in 1 .. Len(K[m]) :
             /\ i % 2 = 0 /\ i - 1 \in 1 .. Len(K[m]) /\ K[m][i - 1] = k
             /\ nodes[k].next = K[m][i]
             /\ Lists(nodes', ncount') = [K EXCEPT ![m] = [K[m] EXCEPT ![i] = v]]
    BY <1>1, <1>2
  <1>7. K[v] = << >> /\ Loose(K, v) /\ m # v /\ nodes[v].first = NIL
    BY <1>4, FreeLeaf DEF MapReplace, K
  <1>8. d \in Nat /\ d < MaxDepth
    BY <1>2, <1>3, RoomBelow DEF MapReplace
  <1>9. k \in Id /\ nodes[k].next \in Id
    BY <1>2, <1>3, <1>6
  <1>10. nodes[k].depth = d + 1
    <2> DEFINE h == i - 1
    <2>1. Leveled(nodes, Live, K)
      BY DEF LevelInv, K
    <2>2. h \in 1 .. Len(K[m]) /\ h % 2 = 1 /\ K[m][h] = k
      <3>1. \A j \in Nat : j % 2 = 0 => (j - 1) % 2 = 1
        OBVIOUS
      <3>2. i \in Nat
        OBVIOUS
      <3> QED
        BY <1>6, <3>1, <3>2
    <2> HIDE DEF h
    <2>3. BelowParent(nodes, m, h, K[m][h])
      BY <2>1, <2>2, LeveledAt
    <2>4. BelowParent(nodes, m, h, k)
      BY <2>2, <2>3
    <2> QED
      BY <1>5, <2>2, <2>4 DEF BelowParent
  <1> HIDE DEF d
  <1>11. (nodes[k].depth + 1) % Wrap16 = d + 2
    <2>1. nodes[k].depth + 1 = d + 2 /\ d + 2 \in 0 .. (Wrap16 - 1)
      BY <1>8, <1>10
    <2>2. \A e \in 0 .. (Wrap16 - 1) : e % Wrap16 = e
      OBVIOUS
    <2> QED
      BY <2>1, <2>2
  <1>12. Deepened(nodes, nodes', v, d + 2)
    BY <1>2, <1>3, <1>5, <1>7, <1>9, <1>11, MapSpliceDepth
  <1>13. \A x \in Live : SameKey(nodes, nodes', x)
    BY <1>1 DEF Edited
  <1>14. Untouched(nodes, nodes', Live, K, {v})
    BY <1>3, <1>7, <1>12, <1>13 DEF Untouched, Deepened, SameKey
  <1>15. AllBelow(nodes', m, K[m])
    BY <1>14, BelowNow DEF K
  <1>16. BelowParent(nodes', m, i, v)
    <2>1. nodes'[m].depth = d /\ nodes'[v].depth = d + 2
      BY <1>2, <1>7, <1>12 DEF Deepened, d
    <2> QED
      BY <1>6, <1>8, <2>1 DEF BelowParent
  <1>17. AllBelow(nodes', m, [K[m] EXCEPT ![i] = v])
    BY <1>2, <1>15, <1>16, BelowReplace
  <1> QED
    BY <1>6, <1>14, <1>17, LevelStep DEF K

\* and yeptris_node_map_del.
LEMMA MapDelLevels ==
  ASSUME DocumentInv, TypeOK', LevelInv, NEW m \in Live, NEW key \in Text, MapDel(m, key)
  PROVE  LevelInv'
  <1> DEFINE K == Lists(nodes, ncount)
  <1>1. /\ Edited(m)
        /\ \E i \in 1 .. Len(ChildSeq(nodes, m)) :
             /\ i % 2 = 1 /\ i + 1 \in 1 .. Len(ChildSeq(nodes, m))
             /\ Lists(nodes', ncount')
                  = [K EXCEPT ![m] = Without(Without(ChildSeq(nodes, m), i), i)]
    BY MapDelEdits
  <1>2. ChildSeq(nodes, m) = K[m] /\ K[m] \in Seq(Live) /\ m \in Id
    BY KidsOf DEF ListOf
  <1>3. nodes \in [Id -> DNode] /\ Live \in SUBSET Id
    BY WholeIs
  <1> HIDE DEF K
  <1>4. PICK i \in 1 .. Len(K[m]) :
             /\ i % 2 = 1 /\ i + 1 \in 1 .. Len(K[m])
             /\ Lists(nodes', ncount') = [K EXCEPT ![m] = Without(Without(K[m], i), i)]
    BY <1>1, <1>2
  <1>5. PICK k \in Id :
          /\ CanUnlink(nodes, m, k)
          /\ nodes' = IF CanUnlink(unlink_child(nodes, m, k), m, nodes[k].next)
                      THEN unlink_child(unlink_child(nodes, m, k), m, nodes[k].next)
                      ELSE unlink_child(nodes, m, k)
    BY DEF MapDel
  <1> DEFINE cut == unlink_child(nodes, m, k)
             v == nodes[k].next
  <1>6. cut \in [Id -> DNode] /\ \A x \in Id : cut[x].depth = nodes[x].depth
    BY <1>2, <1>3, <1>5, UnlinkType, UnlinkDepth
  <1>7. nodes' = IF CanUnlink(cut, m, v) THEN unlink_child(cut, m, v) ELSE cut
    BY <1>5
  <1>8. v \in Link
    BY <1>3 DEF DNode
  <1> HIDE DEF cut, v
  <1>9. \A x \in Id : nodes'[x].depth = nodes[x].depth
    <2>1. CASE CanUnlink(cut, m, v)
      <3>1. v \in Id
        BY <1>8, <2>1 DEF CanUnlink, Link
      <3>2. \A x \in Id : unlink_child(cut, m, v)[x].depth = cut[x].depth
        BY <1>2, <1>6, <2>1, <3>1, UnlinkDepth
      <3> QED
        BY <1>6, <1>7, <2>1, <3>2
    <2>2. CASE ~CanUnlink(cut, m, v)
      BY <1>6, <1>7, <2>2
    <2> QED
      BY <2>1, <2>2
  <1>10. \A x \in Live : SameKey(nodes, nodes', x)
    BY <1>1 DEF Edited
  <1>11. Untouched(nodes, nodes', Live, K, {})
    BY <1>3, <1>9, <1>10 DEF Untouched, SameKey
  <1>12. AllBelow(nodes', m, K[m])
    BY <1>11, BelowNow DEF K
  <1>13. AllBelow(nodes', m, Without(Without(K[m], i), i))
    BY <1>2, <1>4, <1>12, BelowPairOut
  <1> QED
    BY <1>4, <1>11, <1>13, LevelStep DEF K

\* A call that edits no list keeps the depths right when it writes none of them.
LEMMA LevelsKept ==
  ASSUME DocumentInv, LevelInv, Unedited, \A x \in Live : nodes'[x].depth = nodes[x].depth
  PROVE  LevelInv'
  <1> DEFINE K == Lists(nodes, ncount)
  <1>1. Kept(nodes, Live, K, docs, displaced) /\ Live \in SUBSET Id
    BY WholeIs
  <1>2. Leveled(nodes, Live, K)
    BY DEF LevelInv
  <1>3. Lists(nodes', ncount') = K /\ Live' \in SUBSET Id
    BY DEF Unedited
  <1> HIDE DEF K
  <1>4. K \in [Id -> Seq(Live)] /\ \A q \in Id \ Live : K[q] = << >>
    BY <1>1 DEF Kept, Sound
  <1>5. \A x \in Live : SameKey(nodes, nodes', x)
    BY DEF Unedited
  <1>6. Untouched(nodes, nodes', Live, K, {})
    BY <1>5 DEF Untouched, SameKey
  <1>7. ASSUME NEW p \in Live', NEW i \in 1 .. Len(K[p]) PROVE BelowParent(nodes', p, i, K[p][i])
    <2>1. p \in Id
      BY <1>3
    <2>2. p \in Live
      <3>1. K[p] # << >>
        BY <1>7
      <3> QED
        BY <1>4, <2>1, <3>1
    <2>3. AllBelow(nodes', p, K[p])
      BY <1>2, <1>4, <1>6, <2>1, <2>2, StillBelow
    <2> QED
      BY <1>7, <2>3 DEF AllBelow
  <1>8. Leveled(nodes', Live', K)
    BY <1>7 DEF Leveled
  <1> QED
    BY <1>3, <1>8 DEF LevelInv

\* A new node is in no list.
LEMMA NewLevels ==
  ASSUME DocumentInv, TypeOK', LevelInv, NEW kind, NEW text, New(kind, text)
  PROVE  LevelInv'
  <1>1. Unedited
    BY NewKeepsLists
  <1>2. nodes \in [Id -> DNode] /\ Live \in SUBSET Id /\ ncount \notin Live
    BY WholeIs DEF Live, DocumentInv, TypeOK
  <1>3. nodes' = [nodes EXCEPT ![ncount] = Fresh(kind, text)]
    BY DEF New
  <1>4. \A x \in Live : nodes'[x].depth = nodes[x].depth
    BY <1>2, <1>3
  <1> QED
    BY <1>1, <1>4, LevelsKept

\* yeptris_document_set_root records the level of every node below the root.
LEMMA SetRootLevels ==
  ASSUME DocumentInv, TypeOK', Gentle, LevelInv, NEW r \in Live, SetRoot(r)
  PROVE  LevelInv'
  <1> DEFINE K == Lists(nodes, ncount)
             marked == [nodes EXCEPT ![r].att = TRUE]
  <1>1. Unedited /\ ~Placed(K, docs, r)
    BY SetRootKeepsLists DEF Gentle
  <1>2. /\ Kept(nodes, Live, K, docs, displaced) /\ nodes \in [Id -> DNode]
        /\ Live \in SUBSET Id /\ r \in Id
    BY WholeIs
  <1>3. Leveled(nodes, Live, K)
    BY DEF LevelInv
  <1>4. Lists(nodes', ncount') = K /\ Live' = Live
    BY <1>1 DEF Unedited, SetRoot, Live
  <1> HIDE DEF K
  <1>5. Sound(nodes, Live, K) /\ K \in [Id -> Seq(Live)]
    BY <1>2 DEF Kept, Sound
  <1>6. Loose(K, r)
    BY <1>1 DEF Placed, Loose
  <1>7. marked \in [Id -> DNode]
    BY <1>2, FieldTypes
  <1>8. ASSUME NEW x \in Id
        PROVE /\ marked[x].first = nodes[x].first /\ marked[x].last = nodes[x].last
              /\ marked[x].next = nodes[x].next /\ marked[x].count = nodes[x].count
              /\ marked[x].kind = nodes[x].kind /\ marked[x].depth = nodes[x].depth
    <2>1. nodes[x] \in DNode
      BY <1>2
    <2>2. marked[x] = IF x = r THEN [nodes[x] EXCEPT !.att = TRUE] ELSE nodes[x]
      BY <1>2
    <2> HIDE DEF marked
    <2>3. CASE x = r
      BY <2>1, <2>2, <2>3 DEF DNode
    <2>4. CASE x # r
      BY <2>2, <2>4
    <2> QED
      BY <2>3, <2>4
  <1>9. nodes' = yep_mut_set_depths(marked, r, 0)
    BY DEF SetRoot
  <1> HIDE DEF marked
  <1>10. Sound(marked, Live, K)
    BY <1>2, <1>5, <1>8, SameLinksSound
  <1>11. Leveled(marked, Live, K)
    <2>1. ASSUME NEW p \in Live, NEW i \in 1 .. Len(K[p]) PROVE BelowParent(marked, p, i, K[p][i])
      <3>1. K[p] \in Seq(Live) /\ p \in Id
        BY <1>2, <1>5
      <3>2. K[p][i] \in Id
        <4>1. K[p][i] \in Live
          BY <3>1
        <4> QED
          BY <1>2, <4>1
      <3>3. BelowParent(nodes, p, i, K[p][i])
        BY <1>3, LeveledAt
      <3>4. /\ marked[p].depth = nodes[p].depth /\ marked[p].kind = nodes[p].kind
            /\ marked[K[p][i]].depth = nodes[K[p][i]].depth
        BY <1>8, <3>1, <3>2
      <3> QED
        BY <3>3, <3>4 DEF BelowParent
    <2> QED
      BY <2>1 DEF Leveled
  <1>12. Leveled(nodes', Live, K)
    BY <1>2, <1>6, <1>7, <1>9, <1>10, <1>11, RootLeveled
  <1> QED
    BY <1>4, <1>12 DEF LevelInv

\* Every step of a gentle host keeps the depths right.
LEMMA LevelNext ==
  ASSUME DocumentInv, Gentle, LevelInv, [Next]_vars
  PROVE  LevelInv'
  <1> USE DEF caches
  <1>1. TypeOK'
    BY NextType DEF DocumentInv
  <1>2. ASSUME NEW kind, NEW t, New(kind, t) PROVE LevelInv'
    BY <1>1, <1>2, NewLevels
  <1>3. ASSUME NEW t, NewScalar(t) \/ NewAlias(t) PROVE LevelInv'
    BY <1>2, <1>3 DEF NewScalar, NewAlias
  <1>4. CASE NewSequence \/ NewMapping
    BY <1>2, <1>4 DEF NewSequence, NewMapping
  <1>5. ASSUME NEW s \in Live, NEW v \in Live, SeqAdd(s, v) PROVE LevelInv'
    BY <1>1, <1>5, SeqAddLevels
  <1>6. ASSUME NEW s \in Live, NEW v \in Live, NEW i \in 0 .. MaxNodes, SeqSet(s, i, v)
        PROVE  LevelInv'
    BY <1>1, <1>6, SeqSetLevels
  <1>7. ASSUME NEW s \in Live, NEW i \in 0 .. MaxNodes, SeqDel(s, i) PROVE LevelInv'
    BY <1>1, <1>7, SeqDelLevels
  <1>8. ASSUME NEW m \in Live, NEW v \in Live, NEW t \in Text, MapSet(m, t, v)
        PROVE  LevelInv'
    BY <1>1, <1>8, MapAddLevels, MapReplaceLevels DEF MapSet
  <1>9. ASSUME NEW m \in Live, NEW k \in Live, NEW v \in Live, MapAddNode(m, k, v)
        PROVE  LevelInv'
    BY <1>1, <1>9, MapAddNodeLevels
  <1>10. ASSUME NEW m \in Live, NEW t \in Text, MapDel(m, t) PROVE LevelInv'
    BY <1>1, <1>10, MapDelLevels
  <1>11. ASSUME NEW r \in Live, SetRoot(r) PROVE LevelInv'
    BY <1>1, <1>11, SetRootLevels
  <1>12. CASE UNCHANGED <<nodes, ncount, docs, displaced>>
    <2>1. Unedited
      BY <1>1, <1>12, ReadKeepsLists
    <2> QED
      BY <1>12, <2>1, LevelsKept
  <1>13. ASSUME NEW p \in Live, SeqAt(p) \/ MapGet(p) PROVE LevelInv'
    BY <1>12, <1>13 DEF SeqAt, MapGet
  <1>14. CASE UNCHANGED vars
    BY <1>12, <1>14 DEF vars
  <1> QED
    BY <1>3, <1>4, <1>5, <1>6, <1>7, <1>8, <1>9, <1>10, <1>11, <1>13, <1>14 DEF Next

\* Depths that grow from parent to child and end at the cap bound every height.
LEMMA CappedNow ==
  ASSUME DocumentInv, LevelInv
  PROVE  NestingCapped
  <1> DEFINE K == Lists(nodes, ncount)
  <1>1. /\ Kept(nodes, Live, K, docs, displaced) /\ nodes \in [Id -> DNode]
        /\ Live \in SUBSET Id
    BY WholeIs
  <1>2. Leveled(nodes, Live, K)
    BY DEF LevelInv
  <1> HIDE DEF K
  <1>3. Sound(nodes, Live, K)
    BY <1>1 DEF Kept
  <1>4. ASSUME NEW p \in Live PROVE mut_height(nodes, p) <= MaxDepth
    <2> DEFINE h == mut_height(nodes, p)
    <2>1. h \in Nat /\ Level(nodes, p, h) # {}
      BY <1>1, HeightIs
    <2> HIDE DEF h
    <2>2. h <= MaxDepth
      BY <1>1, <1>2, <1>3, <2>1, LevelsCapped
    <2> QED
      BY <2>2 DEF h
  <1> QED
    BY <1>4 DEF NestingCapped

\* The calls begin with depths that grow from parent to child, as in an empty document or in
\* one whose nodes are not linked yet.
StartsLeveled == Leveled(Start.nodes, 0 .. (Start.ncount - 1), Lists(Start.nodes, Start.ncount))

\* A document that a host grows node by node, attaching only nodes without children, never
\* nests deeper than the cap, whatever it deletes, replaces or makes a root in between
\* (include/yeptris/dom.h:96-97; mutate.c:120-151).
THEOREM NestingAlwaysCapped ==
  ASSUME Gentle, StartsWhole, StartsLeveled
  PROVE  Spec => []NestingCapped
  <1>1. Init => DocumentInv /\ LevelInv
    <2>1. Init => DocumentInv
      BY InitWhole
    <2>2. Init => LevelInv
      BY DEF Init, LevelInv, StartsLeveled, Live
    <2> QED
      BY <2>1, <2>2
  <1>2. DocumentInv /\ LevelInv /\ [Next]_vars => (DocumentInv /\ LevelInv)'
    <2> SUFFICES ASSUME DocumentInv, LevelInv, [Next]_vars PROVE DocumentInv' /\ LevelInv'
      OBVIOUS
    <2>1. Careful
      BY DEF Gentle
    <2>2. Outcome
      BY <2>1, StepOutcome
    <2>3. DocumentInv'
      BY <2>2, OutcomeIsStep
    <2>4. LevelInv'
      BY LevelNext
    <2> QED
      BY <2>3, <2>4
  <1>3. DocumentInv /\ LevelInv => NestingCapped
    BY CappedNow
  <1> QED
    BY <1>1, <1>2, <1>3, PTL DEF Spec

-----------------------------------------------------------------------------
Abstract == INSTANCE OrderedTreeProofs
              WITH Node <- Id, live <- Live, kids <- Lists(nodes, ncount), roots <- docs

\* Implementing OrderedTree is enough for one parent per node: the runs that
\* check ImplementsOrderedTree owe nothing more (include/yeptris/dom.h:94).
THEOREM RefinementGivesOneParent == ImplementsOrderedTree => []OneParent
  BY Abstract!OneParentAlways, PTL
  DEF ImplementsOrderedTree, OneParent,
      Tree!Spec, Tree!Init, Tree!Next, Tree!vars, Tree!OneParent, Tree!Elems,
      Tree!Distinct, Tree!Create, Tree!Edit, Tree!Splice, Tree!Root, Tree!Free,
      Abstract!Spec, Abstract!Init, Abstract!Next, Abstract!vars,
      Abstract!OneParent, Abstract!Elems, Abstract!Distinct, Abstract!Create,
      Abstract!Edit, Abstract!Splice, Abstract!Root, Abstract!Free
=============================================================================

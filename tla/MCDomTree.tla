----------------------------- MODULE MCDomTree ------------------------------
(***************************************************************************)
(* Instances of DomTree for TLC. A host either edits a small mixed         *)
(* document, collections with children attached too (DomTree with the      *)
(* configuration's constants), or grows nested collections top-down under  *)
(* a cap of GrowDepth levels (Grown); task says which.                     *)
(***************************************************************************)
EXTENDS DomTree

CONSTANT GrowDepth

VARIABLE task

\* A document in which the host has created one node per entry of kinds and
\* linked none of them.
Pool(kinds) ==
  [nodes |-> [i \in Id |-> Fresh(IF i < Len(kinds) THEN kinds[i + 1] ELSE "scalar", Empty)],
   ncount |-> Len(kinds), docs |-> << >>, parsed |-> {}]

MixedPool == Pool(<<"map", "seq", "scalar">>)
DeepPool == Pool(<<"seq", "seq", "seq", "scalar">>)

\* The document the parser leaves for "k: []": a mapping whose key and value
\* are linked but, as the parser writes no side tables, not marked attached.
ParsedDocument ==
  LET cells == Pool(<<"map", "scalar", "seq">>).nodes
  IN  [nodes |-> dom_link(dom_link([cells EXCEPT ![1].value = "k"], 0, 1), 0, 2),
       ncount |-> 3, docs |-> <<0>>, parsed |-> {0, 1, 2}]

Grown == INSTANCE DomTree
           WITH Start <- DeepPool, MaxDepth <- GrowDepth, Liberties <- {}, Makes <- Kinds,
                MaxRoots <- 1, Reads <- {"get"}

TreeInit == \/ task = "edit" /\ Init
            \/ task = "grow" /\ Grown!Init

Edits == task = "edit" /\ Next /\ UNCHANGED task
Grows == task = "grow" /\ Grown!Next /\ UNCHANGED task

TreeSpec == TreeInit /\ [][Edits \/ Grows]_<<task, vars>>

Parsed == INSTANCE DomTree WITH Start <- ParsedDocument, Liberties <- {}

\* The pools are whole documents, and so is what the parser leaves.
ASSUME PoolsWhole ==
  /\ Whole(Start.nodes, Start.ncount, Start.docs, {})
  /\ Grown!Whole(DeepPool.nodes, DeepPool.ncount, DeepPool.docs, {})
  /\ Parsed!Whole(ParsedDocument.nodes, ParsedDocument.ncount, ParsedDocument.docs, {})

\* Nothing is linked in the pool that is grown, so that no recorded depth is wrong yet.
ASSUME PoolLeveled ==
  Grown!Leveled(DeepPool.nodes, 0 .. (DeepPool.ncount - 1),
                Grown!Lists(DeepPool.nodes, DeepPool.ncount))

\* No tree that is grown top-down nests past the cap (mutate.c:143;
\* include/yeptris/dom.h:96-97).
GrownCapped == task = "grow" => Grown!NestingCapped
=============================================================================

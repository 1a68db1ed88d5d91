---------------------------- MODULE LazyDocProofs ---------------------------
(***************************************************************************)
(* Read-only sharing of a lazily parsed document, for any number of        *)
(* threads, any tree and any failing allocations: the argument is that the *)
(* three mutexes keep the lazy initializations apart (SharingInv), and the *)
(* properties follow from it.  That answers are right needs more: what the *)
(* cache holds between two critical sections, and what a thread has found  *)
(* and wrapped so far (AnswerInv).                                         *)
(***************************************************************************)
EXTENDS LazyDoc, FiniteSetTheorems, TLAPS

\* The functions the steps update, and nothing about the nodes.
Shape ==
  /\ owner \in [Mutex -> Threads \union {NULL}]
  /\ pc \in [Threads -> Label]
  /\ loc \in [Threads -> Nat]
  /\ used \in [ArenaIds -> Nat]
  /\ got \in [Threads -> Seq((Nat \X Nat) \union {NULL})]
  /\ DOMAIN held = Threads
  /\ DOMAIN mem = Addr

IInv == Shape /\ SharingInv

\* There is a first arena id, because there is a thread.
LEMMA FirstArena == 1 \in ArenaIds
<1>1. Cardinality(Threads) \in Nat
  BY ThreadsAssumption, FS_CardinalityType
<1>2. Cardinality(Threads) # 0
  BY ThreadsAssumption, FS_EmptySet
<1> QED
  BY <1>1, <1>2 DEF ArenaIds

\* The document as the parser leaves it: a tape, no tree, no arena, no reader.
LEMMA InitHolds == Init => IInv
<1> SUFFICES ASSUME Init PROVE IInv
  OBVIOUS
<1>1. Shape
  BY DEF Init, Shape, Mutex, Label
<1>2. TreeInv
  BY DEF Init, TreeInv, Mutex, Label
<1>3. ArenaInv
  BY DEF Init, ArenaInv
<1>4. BumpInv
  BY DEF Init, BumpInv
<1> QED
  BY <1>1, <1>2, <1>3, <1>4 DEF IInv, SharingInv

\* Every step keeps the tables functions of the threads and addresses.
LEMMA ShapeStep == IInv /\ [Next]_vars => Shape'
<1> SUFFICES ASSUME IInv, [Next]_vars PROVE Shape'
  OBVIOUS
<1> USE DEF Set, Goto, At, Lock, Unlock, Mutex, Label
<1>1. CASE UNCHANGED vars
  BY <1>1 DEF vars, shared, local, IInv, Shape
<1>2. ASSUME NEW t \in Threads, Call(t) PROVE Shape'
  BY <1>2 DEF Call, shared, IInv, Shape
<1>3. ASSUME NEW t \in Threads, Return(t) PROVE Shape'
  BY <1>3 DEF Return, shared, IInv, Shape
<1>4. ASSUME NEW t \in Threads, LockLazy(t) PROVE Shape'
  BY <1>4 DEF LockLazy, IInv, Shape, SharingInv, TreeInv
<1>5. ASSUME NEW t \in Threads, Replay(t) PROVE Shape'
  <2>1. trees \in Nat
    BY DEF IInv, SharingInv, TreeInv
  <2>2. loc' \in [Threads -> Nat]
    BY <1>5, <2>1 DEF Replay, IInv, Shape
  <2>3. pc' \in [Threads -> Label]
    BY <1>5 DEF Replay, IInv, Shape
  <2> QED
    BY <1>5, <2>2, <2>3 DEF Replay, IInv, Shape
<1>6. ASSUME NEW t \in Threads, Publish(t) PROVE Shape'
  BY <1>6 DEF Publish, IInv, Shape
<1>7. ASSUME NEW t \in Threads, LockIndexed(t) PROVE Shape'
  BY <1>7 DEF LockIndexed, IInv, Shape
<1>8. ASSUME NEW t \in Threads, Fill(t) PROVE Shape'
  BY <1>8 DEF Fill, IInv, Shape
<1>9. ASSUME NEW t \in Threads, LockIndex(t) PROVE Shape'
  BY <1>9 DEF LockIndex, IInv, Shape
<1>10. ASSUME NEW t \in Threads, Lookup(t) PROVE Shape'
  BY <1>10 DEF Lookup, IInv, Shape
<1>11. ASSUME NEW t \in Threads, Scan(t) PROVE Shape'
  BY <1>11 DEF Scan, shared, IInv, Shape
<1>12. ASSUME NEW t \in Threads, LockArena(t) PROVE Shape'
  BY <1>12 DEF LockArena, IInv, Shape, SharingInv, ArenaInv
<1>13. ASSUME NEW t \in Threads, Arena(t) PROVE Shape'
  <2>1. Append(got[t], NULL) \in Seq((Nat \X Nat) \union {NULL})
    BY DEF IInv, Shape
  <2>2. got' \in [Threads -> Seq((Nat \X Nat) \union {NULL})]
    BY <1>13, <2>1 DEF Arena, IInv, Shape
  <2>3. arenas \in Nat
    BY DEF IInv, SharingInv, ArenaInv
  <2>4. loc' \in [Threads -> Nat]
    <3>1. loc' = loc \/ loc' = [loc EXCEPT ![t] = arenas + 1]
      BY <1>13 DEF Arena
    <3>2. loc \in [Threads -> Nat] /\ arenas + 1 \in Nat
      BY <2>3 DEF IInv, Shape
    <3> QED
      BY <3>1, <3>2
  <2>5. pc' \in [Threads -> Label]
    BY <1>13 DEF Arena, IInv, Shape
  <2>6. owner' \in [Mutex -> Threads \union {NULL}]
    BY <1>13 DEF Arena, IInv, Shape
  <2> QED
    BY <1>13, <2>2, <2>4, <2>5, <2>6 DEF Arena, IInv, Shape
<1>14. ASSUME NEW t \in Threads, LockBump(t) PROVE Shape'
  BY <1>14 DEF LockBump, IInv, Shape
<1>15. ASSUME NEW t \in Threads, ReadBlock(t) PROVE Shape'
  <2>1. loc[t] = 1 /\ used[loc[t]] \in Nat
    BY <1>15, FirstArena DEF ReadBlock, IInv, Shape, SharingInv, ArenaInv
  <2>2. /\ Append(got[t], NULL) \in Seq((Nat \X Nat) \union {NULL})
        /\ Append(got[t], <<loc[t], used[loc[t]] + 1>>) \in Seq((Nat \X Nat) \union {NULL})
    BY <2>1 DEF IInv, Shape
  <2>3. got' \in [Threads -> Seq((Nat \X Nat) \union {NULL})]
    BY <1>15, <2>2 DEF ReadBlock, IInv, Shape
  <2>4. pc' \in [Threads -> Label] /\ owner' \in [Mutex -> Threads \union {NULL}]
    BY <1>15 DEF ReadBlock, IInv, Shape
  <2> QED
    BY <1>15, <2>3, <2>4 DEF ReadBlock, IInv, Shape
<1>16. ASSUME NEW t \in Threads, Commit(t) PROVE Shape'
  <2>1. got[t][Len(got[t])] = <<1, used[1] + 1>> /\ used[1] \in Nat
    BY <1>16, FirstArena DEF Commit, IInv, Shape, SharingInv, BumpInv
  <2>2. used' = [used EXCEPT ![1] = used[1] + 1]
    BY <1>16, <2>1 DEF Commit
  <2>3. used' \in [ArenaIds -> Nat]
    <3>1. used[1] + 1 \in Nat /\ used \in [ArenaIds -> Nat]
      BY <2>1 DEF IInv, Shape
    <3> QED
      BY <3>1, <2>2
  <2>4. pc' \in [Threads -> Label] /\ owner' \in [Mutex -> Threads \union {NULL}]
    BY <1>16 DEF Commit, IInv, Shape
  <2>5. DOMAIN mem' = Addr
    <3>1. PICK h, x : mem' = [mem EXCEPT ![h] = x]
      BY <1>16 DEF Commit
    <3> QED
      BY <3>1 DEF IInv, Shape
  <2> QED
    BY <1>16, <2>3, <2>4, <2>5 DEF Commit, IInv, Shape
<1>17. ASSUME NEW t \in Threads, Wrapped(t) PROVE Shape'
  BY <1>17 DEF Wrapped, shared, IInv, Shape
<1> QED
  BY <1>1, <1>2, <1>3, <1>4, <1>5, <1>6, <1>7, <1>8, <1>9, <1>10, <1>11, <1>12, <1>13,
     <1>14, <1>15, <1>16, <1>17 DEF Next, InCall

\* The lazy mutex is held from the look at doc->dom to its publication, so
\* nobody else can have replayed the tape in between.
LEMMA TreeStep == IInv /\ [Next]_vars => TreeInv'
<1> SUFFICES ASSUME IInv, [Next]_vars PROVE TreeInv'
  OBVIOUS
<1> USE ThreadsAssumption DEF Set, Goto, At, Mutex, Label, IInv, Shape, SharingInv, TreeInv
<1>1. CASE UNCHANGED vars
  BY <1>1 DEF vars, shared, local
<1>2. ASSUME NEW t \in Threads, Call(t) PROVE TreeInv'
  BY <1>2 DEF Call, shared
<1>3. ASSUME NEW t \in Threads, Return(t) PROVE TreeInv'
  BY <1>3 DEF Return, shared
<1>4. ASSUME NEW t \in Threads, LockLazy(t) PROVE TreeInv'
  BY <1>4 DEF LockLazy, Lock
<1>5. ASSUME NEW t \in Threads, Replay(t) PROVE TreeInv'
  BY <1>5 DEF Replay
<1>6. ASSUME NEW t \in Threads, Publish(t) PROVE TreeInv'
  <2>1. /\ pc[t] = "publish" /\ owner["lazy"] = t /\ loc[t] = trees
        /\ trees' = trees /\ loc' = loc /\ held' = held /\ got' = got
    BY <1>6 DEF Publish
  <2>2. dom' = trees /\ tape' = (trees = 0)
    BY <1>6, <2>1 DEF Publish
  <2>3. \A u \in Threads \ {t} : pc'[u] = pc[u] /\ pc[u] \notin {"replay", "publish"}
    BY <1>6, <2>1 DEF Publish
  <2>4. pc'[t] \notin {"replay", "publish"}
    BY <1>6 DEF Publish
  <2>5. trees = 0 => pc'[t] \in {"idle", "lazy", "return"}
    BY <1>6, <2>1 DEF Publish
  <2> QED
    BY <2>1, <2>2, <2>3, <2>4, <2>5
<1>7. ASSUME NEW t \in Threads, LockIndexed(t) PROVE TreeInv'
  <2>1. dom = 1 /\ dom' = dom /\ tape' = tape /\ trees' = trees
    BY <1>7 DEF LockIndexed
  <2>2. owner'["lazy"] = owner["lazy"]
    BY <1>7 DEF LockIndexed, Lock
  <2>3. \A u \in Threads : pc'[u] \in {"replay", "publish"} => pc'[u] = pc[u] /\ loc'[u] = loc[u]
    BY <1>7 DEF LockIndexed
  <2> QED
    BY <2>1, <2>2, <2>3
<1>8. ASSUME NEW t \in Threads, Fill(t) PROVE TreeInv'
  BY <1>8 DEF Fill, Unlock
<1>9. ASSUME NEW t \in Threads, LockIndex(t) PROVE TreeInv'
  BY <1>9 DEF LockIndex, Lock
<1>10. ASSUME NEW t \in Threads, Lookup(t) PROVE TreeInv'
  BY <1>10 DEF Lookup, Unlock
<1>11. ASSUME NEW t \in Threads, Scan(t) PROVE TreeInv'
  BY <1>11 DEF Scan, shared
<1>12. ASSUME NEW t \in Threads, LockArena(t) PROVE TreeInv'
  BY <1>12 DEF LockArena, Lock
<1>13. ASSUME NEW t \in Threads, Arena(t) PROVE TreeInv'
  <2>1. dom = 1 /\ dom' = dom /\ tape' = tape /\ trees' = trees
    BY <1>13 DEF Arena
  <2>2. owner'["lazy"] = owner["lazy"]
    BY <1>13 DEF Arena, Unlock
  <2>3. \A u \in Threads : pc'[u] \in {"replay", "publish"} => pc'[u] = pc[u] /\ loc'[u] = loc[u]
    BY <1>13 DEF Arena
  <2> QED
    BY <2>1, <2>2, <2>3
<1>14. ASSUME NEW t \in Threads, LockBump(t) PROVE TreeInv'
  BY <1>14 DEF LockBump, Lock
<1>15. ASSUME NEW t \in Threads, ReadBlock(t) PROVE TreeInv'
  <2>1. dom = 1 /\ dom' = dom /\ tape' = tape /\ trees' = trees
    BY <1>15 DEF ReadBlock
  <2>2. owner'["lazy"] = owner["lazy"]
    BY <1>15 DEF ReadBlock, Unlock
  <2>3. \A u \in Threads : pc'[u] \in {"replay", "publish"} => pc'[u] = pc[u] /\ loc'[u] = loc[u]
    BY <1>15 DEF ReadBlock
  <2> QED
    BY <2>1, <2>2, <2>3
<1>16. ASSUME NEW t \in Threads, Commit(t) PROVE TreeInv'
  BY <1>16 DEF Commit, Unlock
<1>17. ASSUME NEW t \in Threads, Wrapped(t) PROVE TreeInv'
  BY <1>17 DEF Wrapped, shared
<1> QED
  BY <1>1, <1>2, <1>3, <1>4, <1>5, <1>6, <1>7, <1>8, <1>9, <1>10, <1>11, <1>12, <1>13,
     <1>14, <1>15, <1>16, <1>17 DEF Next, InCall

\* The arena pointer is read and set under the index mutex, once.
LEMMA ArenaStep == IInv /\ [Next]_vars => ArenaInv'
<1> SUFFICES ASSUME IInv, [Next]_vars PROVE ArenaInv'
  OBVIOUS
<1> USE ThreadsAssumption DEF Set, Goto, At, Mutex, Label, IInv, Shape, SharingInv, ArenaInv
<1>1. CASE UNCHANGED vars
  BY <1>1 DEF vars, shared, local
<1>2. ASSUME NEW t \in Threads, Call(t) PROVE ArenaInv'
  BY <1>2 DEF Call, shared
<1>3. ASSUME NEW t \in Threads, Return(t) PROVE ArenaInv'
  BY <1>3 DEF Return, shared
<1>4. ASSUME NEW t \in Threads, LockLazy(t) PROVE ArenaInv'
  BY <1>4 DEF LockLazy, Lock
<1>5. ASSUME NEW t \in Threads, Replay(t) PROVE ArenaInv'
  BY <1>5 DEF Replay
<1>6. ASSUME NEW t \in Threads, Publish(t) PROVE ArenaInv'
  BY <1>6 DEF Publish, Unlock
<1>7. ASSUME NEW t \in Threads, LockIndexed(t) PROVE ArenaInv'
  BY <1>7 DEF LockIndexed, Lock
<1>8. ASSUME NEW t \in Threads, Fill(t) PROVE ArenaInv'
  BY <1>8 DEF Fill, Unlock
<1>9. ASSUME NEW t \in Threads, LockIndex(t) PROVE ArenaInv'
  BY <1>9 DEF LockIndex, Lock
<1>10. ASSUME NEW t \in Threads, Lookup(t) PROVE ArenaInv'
  BY <1>10 DEF Lookup, Unlock
<1>11. ASSUME NEW t \in Threads, Scan(t) PROVE ArenaInv'
  BY <1>11 DEF Scan, shared
<1>12. ASSUME NEW t \in Threads, LockArena(t) PROVE ArenaInv'
  BY <1>12 DEF LockArena, Lock
<1>13. ASSUME NEW t \in Threads, Arena(t) PROVE ArenaInv'
  BY <1>13 DEF Arena, Unlock
<1>14. ASSUME NEW t \in Threads, LockBump(t) PROVE ArenaInv'
  BY <1>14 DEF LockBump, Lock
<1>15. ASSUME NEW t \in Threads, ReadBlock(t) PROVE ArenaInv'
  BY <1>15 DEF ReadBlock, Unlock
<1>16. ASSUME NEW t \in Threads, Commit(t) PROVE ArenaInv'
  BY <1>16 DEF Commit, Unlock
<1>17. ASSUME NEW t \in Threads, Wrapped(t) PROVE ArenaInv'
  BY <1>17 DEF Wrapped, shared
<1> QED
  BY <1>1, <1>2, <1>3, <1>4, <1>5, <1>6, <1>7, <1>8, <1>9, <1>10, <1>11, <1>12, <1>13,
     <1>14, <1>15, <1>16, <1>17 DEF Next, InCall

\* The arena's mutex is held from the read of used to its write, so the
\* address lies above every handle given out.
LEMMA BumpStep == IInv /\ [Next]_vars => BumpInv'
<1> SUFFICES ASSUME IInv, [Next]_vars PROVE BumpInv'
  OBVIOUS
<1> USE ThreadsAssumption DEF Set, Goto, At, Mutex, Label, IInv, Shape, SharingInv, ArenaInv, BumpInv
<1>1. CASE UNCHANGED vars
  BY <1>1 DEF vars, shared, local
<1>2. ASSUME NEW t \in Threads, Call(t) PROVE BumpInv'
  BY <1>2 DEF Call, shared
<1>3. ASSUME NEW t \in Threads, Return(t) PROVE BumpInv'
  BY <1>3 DEF Return, shared
<1>4. ASSUME NEW t \in Threads, LockLazy(t) PROVE BumpInv'
  BY <1>4 DEF LockLazy, Lock
<1>5. ASSUME NEW t \in Threads, Replay(t) PROVE BumpInv'
  BY <1>5 DEF Replay
<1>6. ASSUME NEW t \in Threads, Publish(t) PROVE BumpInv'
  BY <1>6 DEF Publish, Unlock
<1>7. ASSUME NEW t \in Threads, LockIndexed(t) PROVE BumpInv'
  BY <1>7 DEF LockIndexed, Lock
<1>8. ASSUME NEW t \in Threads, Fill(t) PROVE BumpInv'
  BY <1>8 DEF Fill, Unlock
<1>9. ASSUME NEW t \in Threads, LockIndex(t) PROVE BumpInv'
  BY <1>9 DEF LockIndex, Lock
<1>10. ASSUME NEW t \in Threads, Lookup(t) PROVE BumpInv'
  BY <1>10 DEF Lookup, Unlock
<1>11. ASSUME NEW t \in Threads, Scan(t) PROVE BumpInv'
  BY <1>11 DEF Scan, shared
<1>12. ASSUME NEW t \in Threads, LockArena(t) PROVE BumpInv'
  BY <1>12 DEF LockArena, Lock
<1>13. ASSUME NEW t \in Threads, Arena(t) PROVE BumpInv'
  <2>1. owner'["hpool"] = owner["hpool"] /\ used' = used /\ mem' = mem
    BY <1>13 DEF Arena, Unlock
  <2>2. \A u \in Threads : pc'[u] \in {"bumped", "commit"} => pc'[u] = pc[u] /\ got'[u] = got[u]
    BY <1>13 DEF Arena
  <2>3. handles' = handles \/ handles = 0
    BY <1>13 DEF Arena
  <2>4. \A a \in Addr : a[1] # 0
    BY DEF Addr, ArenaIds
  <2>5. \A a \in Addr : mem'[a] # NULL => a[1] = handles' /\ a[2] <= used'[1]
    BY <2>1, <2>3, <2>4
  <2> QED
    BY <2>1, <2>2, <2>5
<1>14. ASSUME NEW t \in Threads, LockBump(t) PROVE BumpInv'
  BY <1>14 DEF LockBump, Lock
<1>15. ASSUME NEW t \in Threads, ReadBlock(t) PROVE BumpInv'
  BY <1>15 DEF ReadBlock, Unlock
<1>16. ASSUME NEW t \in Threads, Commit(t) PROVE BumpInv'
  <2>1. got[t][Len(got[t])] = <<1, used[1] + 1>> /\ used[1] \in Nat /\ handles = 1
    BY <1>16, FirstArena DEF Commit
  <2>2. used' = [used EXCEPT ![1] = used[1] + 1] /\ got' = got /\ handles' = handles
    BY <1>16, <2>1 DEF Commit
  <2>3. used'[1] = used[1] + 1
    BY <2>2, FirstArena
  <2>4. \A u \in Threads : pc'[u] \notin {"bumped", "commit"}
    BY <1>16 DEF Commit
  <2>5. \A a \in Addr : a # <<1, used[1] + 1>> => mem'[a] = mem[a]
    BY <1>16, <2>1 DEF Commit
  <2>6. \A a \in Addr : a[2] \in Nat
    BY DEF Addr
  <2>7. \A a \in Addr : mem'[a] # NULL => a[1] = handles' /\ a[2] <= used'[1]
    BY <2>1, <2>2, <2>3, <2>5, <2>6
  <2> QED
    BY <2>4, <2>7
<1>17. ASSUME NEW t \in Threads, Wrapped(t) PROVE BumpInv'
  BY <1>17 DEF Wrapped, shared
<1> QED
  BY <1>1, <1>2, <1>3, <1>4, <1>5, <1>6, <1>7, <1>8, <1>9, <1>10, <1>11, <1>12, <1>13,
     <1>14, <1>15, <1>16, <1>17 DEF Next, InCall

\* The strengthened invariant holds in every state.
LEMMA SharingInduction == Spec => []IInv
<1>1. IInv /\ [Next]_vars => IInv'
  BY ShapeStep, TreeStep, ArenaStep, BumpStep DEF IInv, SharingInv
<1> QED
  BY InitHolds, <1>1, PTL DEF Spec

\* Whichever threads make the first access, and however often the replay
\* fails, a shared document gets one tree and every reader gets that one.
THEOREM OneTreeAlways == Spec => []OneTree
<1>1. ASSUME IInv PROVE trees <= 1
  BY <1>1 DEF IInv, SharingInv, TreeInv
<1>2. ASSUME IInv, NEW t \in Threads, At(t, "wrap") \/ held[t] # {} PROVE dom = 1
  BY <1>2 DEF IInv, SharingInv, TreeInv, At, Label
<1>3. ASSUME IInv, dom = 1 PROVE ~tape
  <2>1. tape = (dom = 0)
    BY <1>3, Zenon DEF IInv, SharingInv, TreeInv
  <2>2. dom # 0
    BY <1>3
  <2> QED
    BY <2>1, <2>2, Zenon
<1>4. IInv => OneTree
  BY <1>1, <1>2, <1>3, Zenon DEF OneTree
<1> QED
  BY SharingInduction, <1>4, PTL

\* Every handle lies in the arena the document releases.
THEOREM OneArenaAlways == Spec => []OneArena
<1>1. IInv => OneArena
  BY DEF IInv, SharingInv, BumpInv, OneArena
<1> QED
  BY SharingInduction, <1>1, PTL

\* One tree and one arena, for any number of threads.
THEOREM OneOfEachAlways == Spec => []OneOfEach
BY OneTreeAlways, OneArenaAlways, PTL DEF OneOfEach

\* A handle once given out is never overwritten, by any thread.
THEOREM HandlesNeverChange == Spec => HandlesStable
<1> DEFINE Stable == \A a \in Addr : mem[a] # NULL => mem'[a] = mem[a]
<1>1. IInv /\ [Next]_vars => [Stable]_vars
  <2> SUFFICES ASSUME IInv, Next PROVE Stable
    BY DEF Stable
  <2>1. ASSUME NEW t \in Threads, Commit(t) PROVE Stable
    BY <2>1, FirstArena DEF Commit, At, IInv, Shape, SharingInv, ArenaInv, BumpInv, Addr
  <2>2. ASSUME NEW t \in Threads, Call(t) \/ InCall(t), ~Commit(t) PROVE mem' = mem
    BY <2>2 DEF Call, InCall, Return, LockLazy, Replay, Publish, LockIndexed, Fill, LockIndex,
             Lookup, Scan, LockArena, Arena, LockBump, ReadBlock, Wrapped, shared
  <2> QED
    BY <2>1, <2>2 DEF Next
<1> QED
  BY SharingInduction, <1>1, PTL DEF Spec, HandlesStable

-----------------------------------------------------------------------------
(* The answers.                                                            *)

\* What the answers need of the types of the state.
Typed ==
  /\ query \in [Threads -> Query]
  /\ DOMAIN want = Threads /\ want = [t \in Threads |-> want[t]]
  /\ oom \in [Threads -> BOOLEAN]
  /\ cacheId \in Container \union {NULL}

\* What a query asks for is in the tree.
LEMMA QueryFacts ==
  ASSUME NEW q \in Query
  PROVE  /\ q.of \in Container
         /\ q.call \in {"root", "children", "seq_at", "map_at", "map_get"}
         /\ q.call \in {"seq_at", "map_at"} => q.arg \in 1 .. 2
         /\ q.call = "map_at" => q.of \in Maps
         /\ Len(Kids[q.of]) \in Nat
         /\ q.call = "map_at" => Len(Kids[q.of]) % 2 = 0
<1>1. q.of \in Container /\ q.call \in {"root", "children", "seq_at", "map_at", "map_get"}
  BY ShapeAssumption DEF Query, Maps
<1>2. q.call \in {"seq_at", "map_at"} => q.arg \in 1 .. 2
  BY DEF Query
<1>3. q.call = "map_at" => q.of \in Maps
  BY DEF Query
<1>4. PICK S : Kids[q.of] \in Seq(S)
  BY <1>1, ShapeAssumption
<1>5. Len(Kids[q.of]) \in Nat
  BY <1>4
<1> QED
  BY <1>1, <1>2, <1>3, <1>5, ShapeAssumption

\* The answer to each kind of query.
LEMMA AnswerIs ==
  ASSUME NEW q
  PROVE  /\ q.call = "root" => Answer(q) = <<q.of>>
         /\ q.call = "children" => Answer(q) = Kids[q.of]
         /\ q.call = "seq_at" => Answer(q) = IF q.arg <= Len(Kids[q.of]) THEN <<Kids[q.of][q.arg]>> ELSE << >>
         /\ q.call = "map_at" => Answer(q) = IF 2 * q.arg <= Len(Kids[q.of])
                            THEN <<Kids[q.of][2 * q.arg - 1], Kids[q.of][2 * q.arg]>> ELSE << >>
         /\ q.call = "map_get" => Answer(q) = ValueOf(q)
BY DEF Answer

\* An answer is a list.
LEMMA AnswerLen ==
  ASSUME NEW q \in Query
  PROVE  Len(Answer(q)) \in Nat
<1>1. \A x, y : Len(<<x>>) = 1 /\ Len(<<x, y>>) = 2 /\ Len(<< >>) = 0
  OBVIOUS
<1>2. Len(ValueOf(q)) \in Nat
  BY <1>1 DEF ValueOf
<1> QED
  BY <1>1, <1>2, QueryFacts, AnswerIs

\* There is a container, so there is a query for its root.
LEMMA SomeQueryIs == SomeQuery \in Query
<1>1. PICK c \in Container : TRUE
  BY ShapeAssumption
<1>2. [call |-> "root", of |-> c, arg |-> 0] \in Query
  BY DEF Query
<1>3. \E q \in Query : q.call = "root"
  BY <1>2
<1> QED
  BY <1>3 DEF SomeQuery

\* Every step keeps the calls typed.
LEMMA TypedStep == IInv /\ Typed /\ [Next]_vars => Typed'
<1> SUFFICES ASSUME IInv, Typed, [Next]_vars PROVE Typed'
  OBVIOUS
<1> USE QueryFacts, SomeQueryIs DEF Set, Goto, At, Typed
<1>1. CASE UNCHANGED vars
  BY <1>1 DEF vars, shared, local
<1>2. ASSUME NEW t \in Threads, Call(t) PROVE Typed'
  BY <1>2 DEF Call, shared
<1>3. ASSUME NEW t \in Threads, Return(t) PROVE Typed'
  BY <1>3 DEF Return, shared
<1>4. ASSUME NEW t \in Threads, LockLazy(t) PROVE Typed'
  BY <1>4 DEF LockLazy
<1>5. ASSUME NEW t \in Threads, Replay(t) PROVE Typed'
  BY <1>5 DEF Replay
<1>6. ASSUME NEW t \in Threads, Publish(t) PROVE Typed'
  BY <1>6 DEF Publish
<1>7. ASSUME NEW t \in Threads, LockIndexed(t) PROVE Typed'
  BY <1>7 DEF LockIndexed
<1>8. ASSUME NEW t \in Threads, Fill(t) PROVE Typed'
  BY <1>8 DEF Fill
<1>9. ASSUME NEW t \in Threads, LockIndex(t) PROVE Typed'
  BY <1>9 DEF LockIndex
<1>10. ASSUME NEW t \in Threads, Lookup(t) PROVE Typed'
  BY <1>10 DEF Lookup
<1>11. ASSUME NEW t \in Threads, Scan(t) PROVE Typed'
  BY <1>11 DEF Scan, shared
<1>12. ASSUME NEW t \in Threads, LockArena(t) PROVE Typed'
  BY <1>12 DEF LockArena
<1>13. ASSUME NEW t \in Threads, Arena(t) PROVE Typed'
  BY <1>13 DEF Arena
<1>14. ASSUME NEW t \in Threads, LockBump(t) PROVE Typed'
  BY <1>14 DEF LockBump
<1>15. ASSUME NEW t \in Threads, ReadBlock(t) PROVE Typed'
  BY <1>15 DEF ReadBlock
<1>16. ASSUME NEW t \in Threads, Commit(t) PROVE Typed'
  BY <1>16 DEF Commit
<1>17. ASSUME NEW t \in Threads, Wrapped(t) PROVE Typed'
  BY <1>17 DEF Wrapped, shared
<1> QED
  BY <1>1, <1>2, <1>3, <1>4, <1>5, <1>6, <1>7, <1>8, <1>9, <1>10, <1>11, <1>12, <1>13,
     <1>14, <1>15, <1>16, <1>17 DEF Next, InCall

\* The cache is cleared and filled under its mutex.
LEMMA CacheStep == IInv /\ Typed /\ CacheInv /\ "cache" \notin MayFail /\ [Next]_vars => CacheInv'
<1> SUFFICES ASSUME IInv, Typed, CacheInv, "cache" \notin MayFail, [Next]_vars PROVE CacheInv'
  OBVIOUS
<1> USE ThreadsAssumption, ShapeAssumption DEF Set, Goto, At, Mutex, Label, IInv, Shape, SharingInv, ArenaInv, Typed, CacheInv, Fails
<1>1. CASE UNCHANGED vars
  BY <1>1 DEF vars, shared, local
<1>2. ASSUME NEW t \in Threads, Call(t) PROVE CacheInv'
  BY <1>2 DEF Call, shared
<1>3. ASSUME NEW t \in Threads, Return(t) PROVE CacheInv'
  BY <1>3 DEF Return, shared
<1>4. ASSUME NEW t \in Threads, LockLazy(t) PROVE CacheInv'
  BY <1>4 DEF LockLazy
<1>5. ASSUME NEW t \in Threads, Replay(t) PROVE CacheInv'
  BY <1>5 DEF Replay
<1>6. ASSUME NEW t \in Threads, Publish(t) PROVE CacheInv'
  BY <1>6 DEF Publish
<1>7. ASSUME NEW t \in Threads, LockIndexed(t) PROVE CacheInv'
  BY <1>7 DEF LockIndexed
<1>8. ASSUME NEW t \in Threads, Fill(t) PROVE CacheInv'
  BY <1>8 DEF Fill
<1>9. ASSUME NEW t \in Threads, LockIndex(t) PROVE CacheInv'
  BY <1>9 DEF LockIndex
<1>10. ASSUME NEW t \in Threads, Lookup(t) PROVE CacheInv'
  BY <1>10 DEF Lookup
<1>11. ASSUME NEW t \in Threads, Scan(t) PROVE CacheInv'
  BY <1>11 DEF Scan, shared
<1>12. ASSUME NEW t \in Threads, LockArena(t) PROVE CacheInv'
  BY <1>12 DEF LockArena
<1>13. ASSUME NEW t \in Threads, Arena(t) PROVE CacheInv'
  BY <1>13 DEF Arena
<1>14. ASSUME NEW t \in Threads, LockBump(t) PROVE CacheInv'
  BY <1>14 DEF LockBump
<1>15. ASSUME NEW t \in Threads, ReadBlock(t) PROVE CacheInv'
  BY <1>15 DEF ReadBlock
<1>16. ASSUME NEW t \in Threads, Commit(t) PROVE CacheInv'
  BY <1>16 DEF Commit
<1>17. ASSUME NEW t \in Threads, Wrapped(t) PROVE CacheInv'
  BY <1>17 DEF Wrapped, shared
<1> QED
  BY <1>1, <1>2, <1>3, <1>4, <1>5, <1>6, <1>7, <1>8, <1>9, <1>10, <1>11, <1>12, <1>13,
     <1>14, <1>15, <1>16, <1>17 DEF Next, InCall

\* A thread that takes no step keeps what it found.
LEMMA FoundElsewhere ==
  ASSUME NEW u \in Threads, Found(u),
         pc'[u] = pc[u], query'[u] = query[u], want'[u] = want[u], loc'[u] = loc[u], oom'[u] = oom[u]
  PROVE  Found(u)'
BY DEF Found

\* A list of pairs that has the key at a place has the value after it.
LEMMA PairsWhole ==
  ASSUME NEW n \in Nat, n % 2 = 0, NEW k \in Nat, 2 * k - 1 <= n
  PROVE  2 * k <= n
OBVIOUS

\* The position an indexed read asks for, against the answer.
LEMMA PositionFacts ==
  ASSUME NEW q \in Query, q.call \in {"seq_at", "map_at"}
  PROVE  /\ Position(q) \in Nat
         /\ Position(q) > Len(Kids[q.of]) => Answer(q) = << >>
         /\ Position(q) <= Len(Kids[q.of]) =>
              Answer(q) = IF q.call = "seq_at" THEN <<Kids[q.of][Position(q)]>>
                          ELSE <<Kids[q.of][Position(q)], Kids[q.of][Position(q) + 1]>>
<1>0. q.arg \in 1 .. 2 /\ Len(Kids[q.of]) \in Nat
  BY QueryFacts
<1>1. CASE q.call = "seq_at"
  <2>1. Answer(q) = IF q.arg <= Len(Kids[q.of]) THEN <<Kids[q.of][q.arg]>> ELSE << >>
    BY <1>1, AnswerIs
  <2>2. Position(q) = q.arg
    BY <1>1 DEF Position
  <2> QED
    BY <1>0, <1>1, <2>1, <2>2
<1>2. CASE q.call = "map_at"
  <2>1. Position(q) = 2 * q.arg - 1 /\ Len(Kids[q.of]) % 2 = 0
    BY <1>2, QueryFacts DEF Position
  <2>2. Answer(q) = IF 2 * q.arg <= Len(Kids[q.of])
                    THEN <<Kids[q.of][2 * q.arg - 1], Kids[q.of][2 * q.arg]>> ELSE << >>
    BY <1>2, AnswerIs
  <2>3. Position(q) + 1 = 2 * q.arg /\ Position(q) \in Nat
    BY <1>0, <2>1
  <2>4. Position(q) > Len(Kids[q.of]) => 2 * q.arg > Len(Kids[q.of])
    BY <1>0, <2>1
  <2>5. q.arg \in Nat /\ Len(Kids[q.of]) \in Nat /\ Len(Kids[q.of]) % 2 = 0
    <3>1. q.arg \in Nat
      BY <1>0
    <3> QED
      BY <1>0, <2>1, <3>1, Zenon
  <2>6. Position(q) <= Len(Kids[q.of]) => 2 * q.arg <= Len(Kids[q.of])
    <3>1. ASSUME 2 * q.arg - 1 <= Len(Kids[q.of]) PROVE 2 * q.arg <= Len(Kids[q.of])
      <4> DEFINE n == Len(Kids[q.of])
                 k == q.arg
      <4>1. n \in Nat /\ n % 2 = 0 /\ k \in Nat /\ 2 * k - 1 <= n
        BY <2>5, <3>1
      <4> HIDE DEF n, k
      <4>2. 2 * k <= n
        BY <4>1, PairsWhole
      <4> QED
        BY <4>2 DEF n, k
    <3> QED
      BY <2>1, <3>1
  <2>7. q.call # "seq_at" /\ ~(2 * q.arg > Len(Kids[q.of]) /\ 2 * q.arg <= Len(Kids[q.of]))
    BY <1>0, <1>2
  <2>8. Position(q) > Len(Kids[q.of]) => Answer(q) = << >>
    BY <2>2, <2>4, <2>7
  <2>9. Position(q) <= Len(Kids[q.of]) =>
          Answer(q) = <<Kids[q.of][Position(q)], Kids[q.of][Position(q) + 1]>>
    BY <2>1, <2>2, <2>3, <2>6
  <2> QED
    BY <2>3, <2>7, <2>8, <2>9
<1> QED
  BY <1>1, <1>2

\* A step of one thread leaves the call of every other alone.
LEMMA OthersStand ==
  ASSUME IInv, Typed, NEW t \in Threads, Call(t) \/ InCall(t)
  PROVE  \A u \in Threads \ {t} :
           /\ pc'[u] = pc[u] /\ query'[u] = query[u] /\ want'[u] = want[u]
           /\ got'[u] = got[u] /\ loc'[u] = loc[u] /\ oom'[u] = oom[u]
<1> USE DEF Set, Goto, IInv, Shape, Typed
<1>1. CASE Call(t)
  BY <1>1 DEF Call, shared
<1>2. CASE Return(t)
  BY <1>2 DEF Return, shared
<1>3. CASE LockLazy(t)
  BY <1>3 DEF LockLazy
<1>4. CASE Replay(t)
  BY <1>4 DEF Replay
<1>5. CASE Publish(t)
  BY <1>5 DEF Publish
<1>6. CASE LockIndexed(t)
  BY <1>6 DEF LockIndexed
<1>7. CASE Fill(t)
  BY <1>7 DEF Fill
<1>8. CASE LockIndex(t)
  BY <1>8 DEF LockIndex
<1>9. CASE Lookup(t)
  BY <1>9 DEF Lookup
<1>10. CASE Scan(t)
  BY <1>10 DEF Scan, shared
<1>11. CASE LockArena(t)
  BY <1>11 DEF LockArena
<1>12. CASE Arena(t)
  BY <1>12 DEF Arena
<1>13. CASE LockBump(t)
  BY <1>13 DEF LockBump
<1>14. CASE ReadBlock(t)
  BY <1>14 DEF ReadBlock
<1>15. CASE Commit(t)
  BY <1>15 DEF Commit
<1>16. CASE Wrapped(t)
  BY <1>16 DEF Wrapped, shared
<1> QED
  BY <1>1, <1>2, <1>3, <1>4, <1>5, <1>6, <1>7, <1>8, <1>9, <1>10, <1>11, <1>12, <1>13,
     <1>14, <1>15, <1>16 DEF InCall

\* The thread that fills the cache finds its children there, its own or those
\* an earlier reader of the same container left.
LEMMA FillFinds ==
  ASSUME IInv, Typed, AnswerInv, "cache" \notin MayFail, NEW t \in Threads, Fill(t)
  PROVE  want'[t] = Answer(query[t])
<1> USE DEF Set, Goto, At, IInv, Shape, Typed, AnswerInv
<1> DEFINE q == query[t]
           i == Position(q)
<1>1. q \in Query /\ q.call \in {"seq_at", "map_at"} /\ query' = query /\ q.of \in Container
  BY QueryFacts DEF Fill, Found
<1>2. \A u \in Threads : At(u, "fill") => u = t
  BY DEF Fill, SharingInv, ArenaInv
<1>3. cacheId = q.of => cache = Kids[q.of]
  BY <1>1, <1>2, ShapeAssumption DEF CacheInv
<1>4. cache' = Kids[q.of]
  BY <1>3 DEF Fill, Fails
<1>5. i \in Nat /\ Len(Kids[q.of]) \in Nat
  BY <1>1, QueryFacts, PositionFacts
<1>6. want'[t] = IF i > Len(Kids[q.of]) THEN << >>
                 ELSE IF q.call = "seq_at" THEN <<Kids[q.of][i]>>
                 ELSE <<Kids[q.of][i], Kids[q.of][i + 1]>>
  BY <1>4 DEF Fill
<1> QED
  BY <1>1, <1>5, <1>6, PositionFacts
\* A call comes to the wrapping with the nodes its query asks for.
LEMMA FoundMine ==
  ASSUME IInv, Typed, AnswerInv, "cache" \notin MayFail, NEW t \in Threads, Call(t) \/ InCall(t)
  PROVE  Found(t)'
<1> USE DEF Set, Goto, At, Mutex, Label, Wrapping, IInv, Shape, Typed, AnswerInv
<1>1. CASE Call(t)
  <2>1. PICK q \in Query :
          /\ query' = [query EXCEPT ![t] = q]
          /\ want' = [want EXCEPT ![t] = IF q.call = "children" THEN Kids[q.of] ELSE << >>]
          /\ pc' = [pc EXCEPT ![t] = IF q.call = "root" THEN "lazy" ELSE IF q.call = "children" THEN "wrap"
                                   ELSE IF q.call = "map_get" THEN "index" ELSE "indexed"]
    BY <1>1 DEF Call
  <2>2. query'[t] = q /\ (q.call = "children" => want'[t] = Kids[q.of])
    BY <2>1
  <2>3. /\ q.call = "root" => pc'[t] = "lazy"
        /\ q.call = "children" => pc'[t] = "wrap"
        /\ q.call = "map_get" => pc'[t] = "index"
        /\ q.call \in {"seq_at", "map_at"} => pc'[t] = "indexed"
    BY <2>1
  <2> QED
    BY <2>2, <2>3, QueryFacts, AnswerIs DEF Found
<1>2. CASE Return(t)
  BY <1>2 DEF Return, shared, Found
<1>3. CASE LockLazy(t)
  <2>1. dom = 0 => tape
    BY Zenon DEF SharingInv, TreeInv
  <2>2. pc'[t] = "replay" \/ (pc'[t] = "publish" /\ loc'[t] # 0)
    BY <1>3, <2>1 DEF LockLazy
  <2>3. query'[t] = query[t] /\ query[t].call = "root"
    BY <1>3 DEF LockLazy, Found
  <2> QED
    BY <2>2, <2>3 DEF Found
<1>4. CASE Replay(t)
  <2>1. pc'[t] = "publish" /\ query' = query /\ query[t].call = "root"
    BY <1>4 DEF Replay, Found
  <2>2. oom'[t] \/ loc'[t] # 0
    BY <1>4 DEF Replay, SharingInv, TreeInv
  <2> QED
    BY <2>1, <2>2 DEF Found
<1>5. CASE Publish(t)
  <2>1. query' = query /\ query[t].call = "root"
    BY <1>5 DEF Publish, Found
  <2>2. pc'[t] = "return" \/ (pc'[t] = "wrap" /\ want'[t] = <<query[t].of>>)
    BY <1>5 DEF Publish
  <2> QED
    BY <2>1, <2>2, AnswerIs DEF Found
<1>6. CASE LockIndexed(t)
  <2>1. query' = query /\ query[t].call \in {"seq_at", "map_at"} /\ pc'[t] \in {"return", "fill"}
    BY <1>6 DEF LockIndexed, Found
  <2> QED
    BY <2>1 DEF Found
<1>7. CASE Fill(t)
  <2>1. query' = query /\ pc'[t] \in {"return", "wrap"}
    BY <1>7 DEF Fill
  <2>2. want'[t] = Answer(query[t])
    BY <1>7, FillFinds
  <2> QED
    BY <2>1, <2>2 DEF Found
<1>8. CASE LockIndex(t)
  BY <1>8 DEF LockIndex, Found
<1>9. CASE Lookup(t)
  <2>1. query' = query /\ query[t].call = "map_get"
    BY <1>9 DEF Lookup, Found
  <2>2. pc'[t] = "scan" \/ (pc'[t] = "wrap" /\ want'[t] = ValueOf(query[t]))
    BY <1>9 DEF Lookup
  <2> QED
    BY <2>1, <2>2, AnswerIs DEF Found
<1>10. CASE Scan(t)
  <2>1. query' = query /\ query[t].call = "map_get"
    BY <1>10 DEF Scan, Found
  <2>2. pc'[t] \in {"return", "wrap"} /\ want'[t] = ValueOf(query[t])
    BY <1>10 DEF Scan
  <2> QED
    BY <2>1, <2>2, AnswerIs DEF Found
<1>11. CASE LockArena(t)
  BY <1>11 DEF LockArena, Found
<1>12. CASE Arena(t)
  BY <1>12 DEF Arena, Found
<1>13. CASE LockBump(t)
  BY <1>13 DEF LockBump, Found
<1>14. CASE ReadBlock(t)
  BY <1>14 DEF ReadBlock, Found
<1>15. CASE Commit(t)
  BY <1>15 DEF Commit, Found
<1>16. CASE Wrapped(t)
  BY <1>16 DEF Wrapped, shared, Found
<1> QED
  BY <1>1, <1>2, <1>3, <1>4, <1>5, <1>6, <1>7, <1>8, <1>9, <1>10, <1>11, <1>12, <1>13,
     <1>14, <1>15, <1>16 DEF InCall

\* An address of the arena is a pair of numbers, and an answer's handles are
\* a list.
LEMMA GotFacts ==
  ASSUME IInv, Typed, NEW t \in Threads
  PROVE  /\ got[t] \in Seq((Nat \X Nat) \union {NULL})
         /\ Len(got[t]) \in Nat
         /\ query[t] \in Query
         /\ Len(Answer(query[t])) \in Nat
         /\ used[1] \in Nat
         /\ BlockSize * MaxBlocks \in Nat
<1>1. got[t] \in Seq((Nat \X Nat) \union {NULL}) /\ used[1] \in Nat
  BY FirstArena DEF IInv, Shape
<1>2. query[t] \in Query
  BY DEF Typed
<1>3. Len(Answer(query[t])) \in Nat
  BY <1>2, AnswerLen
<1>4. BlockSize * MaxBlocks \in Nat
  BY BoundsAssumption
<1> QED
  BY <1>1, <1>2, <1>3, <1>4

\* What a thread has collected stays right while others allocate above it.
LEMMA CollectedElsewhere ==
  ASSUME IInv, Typed, NEW u \in Threads, Collected(u),
         pc'[u] = pc[u], query'[u] = query[u], want'[u] = want[u], got'[u] = got[u], oom'[u] = oom[u],
         used'[1] \in Nat, used[1] <= used'[1],
         pc[u] = "commit" => used'[1] = used[1],
         \A a \in Addr : a[1] = 1 /\ a[2] <= used[1] => mem'[a] = mem[a]
  PROVE  Collected(u)'
<1>1. ASSUME NEW i \in DOMAIN got[u], Names(u, i)
      PROVE  Names(u, i)'
  <2>1. got[u][i] \in Addr /\ got[u][i][1] = 1 /\ got[u][i][2] <= used[1]
    BY <1>1 DEF Names
  <2>2. mem'[got[u][i]] = Answer(query[u])[i]
    BY <1>1, <2>1 DEF Names
  <2>3. got[u][i][2] \in Nat /\ used[1] \in Nat
    BY <2>1, GotFacts DEF Addr
  <2>4. got[u][i][2] <= used'[1]
    BY <2>1, <2>3
  <2> QED
    BY <2>1, <2>2, <2>4 DEF Names
<1>2. oom'[u] \/ \A i \in DOMAIN got'[u] : Names(u, i)' \/ (pc'[u] = "commit" /\ i = Len(got'[u]))
  BY <1>1 DEF Collected
<1>3. pc'[u] = "commit" => used'[1] < BlockSize * MaxBlocks
  BY DEF Collected
<1> QED
  BY <1>2, <1>3 DEF Collected

\* Only a commit writes the arena.
LEMMA OnlyCommitWrites ==
  ASSUME NEW t \in Threads, Call(t) \/ InCall(t), ~Commit(t)
  PROVE  used' = used /\ mem' = mem
BY DEF Call, InCall, Return, LockLazy, Replay, Publish, LockIndexed, Fill, LockIndex,
       Lookup, Scan, LockArena, Arena, LockBump, ReadBlock, Wrapped, shared
\* A call without handles yet.
LEMMA NothingCollected ==
  ASSUME NEW t \in Threads, got'[t] = << >>, pc'[t] \in Label \ {"arena", "bump", "bumped", "commit"},
         pc'[t] = "wrap" => Len(want'[t]) \in Nat,
         pc'[t] = "return" => oom'[t] \/ Answer(query'[t]) = << >>
  PROVE  Collected(t)'
BY DEF Collected, Wrapping, Label

\* The handles a call has name the same nodes as long as the arena is not written.
LEMMA HandlesKept ==
  ASSUME NEW t \in Threads, Collected(t), pc[t] # "commit",
         got'[t] = got[t], query'[t] = query[t], oom'[t] = oom[t], used' = used, mem' = mem
  PROVE  oom'[t] \/ \A i \in DOMAIN got'[t] : Names(t, i)'
<1>1. ASSUME NEW i \in DOMAIN got[t], Names(t, i) PROVE Names(t, i)'
  BY <1>1 DEF Names
<1> QED
  BY <1>1 DEF Collected
\* A call collects one handle for each node it found.
LEMMA CollectedMine ==
  ASSUME IInv, Typed, AnswerInv, "cache" \notin MayFail,
         NEW t \in Threads, Call(t) \/ InCall(t), Found(t)'
  PROVE  Collected(t)'
<1> USE GotFacts DEF Set, Goto, At, Mutex, Label, Wrapping, IInv, Shape, Typed, AnswerInv
<1>1. CASE Call(t)
  <2>1. got' = got /\ got[t] = << >>
    BY <1>1 DEF Call, Collected
  <2>2. PICK q \in Query :
          /\ want' = [want EXCEPT ![t] = IF q.call = "children" THEN Kids[q.of] ELSE << >>]
          /\ pc' = [pc EXCEPT ![t] = IF q.call = "root" THEN "lazy" ELSE IF q.call = "children" THEN "wrap"
                                   ELSE IF q.call = "map_get" THEN "index" ELSE "indexed"]
    BY <1>1 DEF Call
  <2>3. pc'[t] \in {"lazy", "index", "indexed"} \/ (pc'[t] = "wrap" /\ want'[t] = Kids[q.of])
    BY <2>2, QueryFacts
  <2>4. Len(Kids[q.of]) \in Nat
    BY QueryFacts
  <2> QED
    BY <2>1, <2>3, <2>4, NothingCollected
<1>2. CASE Return(t)
  <2>1. pc'[t] = "idle" /\ got'[t] = << >>
    BY <1>2 DEF Return
  <2> QED
    BY <2>1, NothingCollected
<1>3. CASE LockLazy(t)
  <2>1. got' = got /\ got[t] = << >>
    BY <1>3 DEF LockLazy, Collected
  <2>2. pc'[t] \in Label \ (Wrapping \union {"return"})
    BY <1>3 DEF LockLazy
  <2> QED
    BY <2>1, <2>2, NothingCollected
<1>4. CASE Replay(t)
  <2>1. got' = got /\ got[t] = << >>
    BY <1>4 DEF Replay, Collected
  <2>2. pc'[t] \in Label \ (Wrapping \union {"return"})
    BY <1>4 DEF Replay
  <2> QED
    BY <2>1, <2>2, NothingCollected
<1>5. CASE Publish(t)
  <2>1. got' = got /\ got[t] = << >> /\ oom' = oom
    BY <1>5 DEF Publish, Collected
  <2>2. (pc'[t] = "wrap" /\ Len(want'[t]) = 1) \/ (pc'[t] = "return" /\ oom[t])
    BY <1>5 DEF Publish, Found
  <2>3. pc'[t] = "return" => oom'[t]
    BY <2>1, <2>2
  <2>4. pc'[t] = "wrap" => Len(want'[t]) \in Nat
    BY <2>2
  <2>5. pc'[t] \in Label \ {"arena", "bump", "bumped", "commit"}
    BY <2>2
  <2> QED
    BY <2>1, <2>3, <2>4, <2>5, NothingCollected
<1>6. CASE LockIndexed(t)
  <2>1. got' = got /\ got[t] = << >> /\ query' = query /\ query[t].call \in {"seq_at", "map_at"}
    BY <1>6 DEF LockIndexed, Collected, Found
  <2>2. pc'[t] = "fill" \/ (pc'[t] = "return" /\ Position(query[t]) > Len(Kids[query[t].of]))
    BY <1>6 DEF LockIndexed
  <2>3. pc'[t] = "return" => Answer(query'[t]) = << >>
    BY <2>1, <2>2, PositionFacts
  <2> QED
    BY <2>1, <2>2, <2>3, NothingCollected
<1>7. CASE Fill(t)
  <2>1. got' = got /\ got[t] = << >> /\ query' = query
    BY <1>7 DEF Fill, Collected
  <2>2. pc'[t] = IF want'[t] = << >> THEN "return" ELSE "wrap"
    BY <1>7 DEF Fill
  <2>3. want'[t] = Answer(query[t])
    BY <1>7, FillFinds
  <2>4. pc'[t] = "wrap" => Len(want'[t]) \in Nat
    BY <2>3
  <2> QED
    BY <2>1, <2>2, <2>3, <2>4, NothingCollected
<1>8. CASE LockIndex(t)
  <2>1. got' = got /\ got[t] = << >>
    BY <1>8 DEF LockIndex, Collected
  <2>2. pc'[t] \in Label \ (Wrapping \union {"return"})
    BY <1>8 DEF LockIndex
  <2> QED
    BY <2>1, <2>2, NothingCollected
<1>9. CASE Lookup(t)
  <2>1. got' = got /\ got[t] = << >> /\ query' = query /\ query[t].call = "map_get"
    BY <1>9 DEF Lookup, Collected, Found
  <2>2. pc'[t] = "scan" \/ (pc'[t] = "wrap" /\ want'[t] = ValueOf(query[t]))
    BY <1>9 DEF Lookup
  <2>3. pc'[t] = "wrap" => Len(want'[t]) \in Nat
    BY <2>1, <2>2, AnswerIs
  <2> QED
    BY <2>1, <2>2, <2>3, NothingCollected
<1>10. CASE Scan(t)
  <2>1. got' = got /\ got[t] = << >> /\ query' = query /\ query[t].call = "map_get"
    BY <1>10 DEF Scan, Collected, Found
  <2>2. want'[t] = Answer(query[t])
    BY <1>10, <2>1, AnswerIs DEF Scan
  <2>3. pc'[t] = IF want'[t] = << >> THEN "return" ELSE "wrap"
    BY <1>10 DEF Scan
  <2>4. pc'[t] = "wrap" => Len(want'[t]) \in Nat
    BY <2>2
  <2> QED
    BY <2>1, <2>2, <2>3, <2>4, NothingCollected
<1>11. CASE LockArena(t)
  <2>1. /\ pc[t] = "wrap" /\ pc'[t] = "arena" /\ Len(got[t]) < Len(want[t]) /\ want[t] = Answer(query[t])
        /\ got' = got /\ query' = query /\ want' = want /\ oom' = oom /\ used' = used /\ mem' = mem
    BY <1>11 DEF LockArena, Collected, Found
  <2>2. oom'[t] \/ \A i \in DOMAIN got'[t] : Names(t, i)'
    BY <2>1, HandlesKept
  <2> QED
    BY <2>1, <2>2 DEF Collected
<1>12. CASE Arena(t)
  <2>1. /\ pc[t] = "arena" /\ Len(got[t]) < Len(want[t]) /\ want[t] = Answer(query[t])
        /\ query' = query /\ want' = want /\ used' = used /\ mem' = mem
    BY <1>12 DEF Arena, Collected, Found
  <2>2. CASE pc'[t] = "bump" /\ got' = got /\ oom' = oom
    <3>1. oom'[t] \/ \A i \in DOMAIN got'[t] : Names(t, i)'
      BY <2>1, <2>2, HandlesKept
    <3> QED
      BY <2>1, <2>2, <3>1 DEF Collected
  <2>3. CASE pc'[t] = "wrap" /\ got'[t] = Append(got[t], NULL) /\ oom'[t]
    <3>1. Len(got'[t]) = Len(got[t]) + 1
      BY <2>3
    <3> QED
      BY <2>1, <2>3, <3>1 DEF Collected
  <2>4. \/ pc'[t] = "bump" /\ got' = got /\ oom' = oom
        \/ pc'[t] = "wrap" /\ got'[t] = Append(got[t], NULL) /\ oom'[t]
    BY <1>12 DEF Arena
  <2> QED
    BY <2>2, <2>3, <2>4
<1>13. CASE LockBump(t)
  <2>1. /\ pc[t] = "bump" /\ pc'[t] = "bumped" /\ Len(got[t]) < Len(want[t]) /\ want[t] = Answer(query[t])
        /\ got' = got /\ query' = query /\ want' = want /\ oom' = oom /\ used' = used /\ mem' = mem
    BY <1>13 DEF LockBump, Collected, Found
  <2>2. oom'[t] \/ \A i \in DOMAIN got'[t] : Names(t, i)'
    BY <2>1, HandlesKept
  <2> QED
    BY <2>1, <2>2 DEF Collected
<1>14. CASE ReadBlock(t)
  <2>1. /\ pc[t] = "bumped" /\ Len(got[t]) < Len(want[t]) /\ want[t] = Answer(query[t])
        /\ query' = query /\ want' = want /\ used' = used /\ mem' = mem
    BY <1>14 DEF ReadBlock, Collected, Found
  <2>2. loc[t] = 1
    BY <2>1 DEF SharingInv, ArenaInv
  <2>3. CASE /\ pc'[t] = "commit" /\ oom' = oom /\ used[1] # BlockSize * MaxBlocks
             /\ got'[t] = Append(got[t], <<1, used[1] + 1>>)
    <3>1. Len(got'[t]) = Len(got[t]) + 1 /\ DOMAIN got'[t] = 1 .. (Len(got[t]) + 1)
      BY <2>3
    <3>2. \A i \in DOMAIN got[t] : got'[t][i] = got[t][i]
      BY <2>3
    <3>3. \A i \in DOMAIN got'[t] : i \in DOMAIN got[t] \/ i = Len(got'[t])
      BY <3>1
    <3>4. ASSUME NEW i \in DOMAIN got[t], Names(t, i) PROVE Names(t, i)'
      BY <2>1, <3>2, <3>4 DEF Names
    <3>5. oom'[t] \/ \A i \in DOMAIN got'[t] : Names(t, i)' \/ (pc'[t] = "commit" /\ i = Len(got'[t]))
      BY <2>1, <2>3, <3>3, <3>4 DEF Collected
    <3>6. used'[1] < BlockSize * MaxBlocks
      BY <2>1, <2>3
    <3> QED
      BY <2>1, <2>3, <3>1, <3>5, <3>6 DEF Collected
  <2>4. CASE pc'[t] = "wrap" /\ got'[t] = Append(got[t], NULL) /\ oom'[t]
    <3>1. Len(got'[t]) = Len(got[t]) + 1
      BY <2>4
    <3> QED
      BY <2>1, <2>4, <3>1 DEF Collected
  <2>5. \/ /\ pc'[t] = "commit" /\ oom' = oom /\ used[1] # BlockSize * MaxBlocks
           /\ got'[t] = Append(got[t], <<1, used[1] + 1>>)
        \/ pc'[t] = "wrap" /\ got'[t] = Append(got[t], NULL) /\ oom'[t]
    BY <1>14, <2>2 DEF ReadBlock, Exhausted
  <2> QED
    BY <2>3, <2>4, <2>5
<1>15. CASE Commit(t)
  <2> DEFINE n == Len(got[t])
             h == <<1, used[1] + 1>>
  <2>1. /\ pc[t] = "commit" /\ n \in 1 .. Len(want[t]) /\ want[t] = Answer(query[t])
        /\ used[1] < BlockSize * MaxBlocks /\ pc'[t] = "wrap"
        /\ query' = query /\ want' = want /\ got' = got /\ oom' = oom
    BY <1>15 DEF Commit, Collected, Found
  <2>2. got[t][n] = h
    BY <2>1 DEF SharingInv, BumpInv
  <2>3. h \in Addr
    BY <2>1, FirstArena DEF Addr
  <2>4. used'[1] = used[1] + 1 /\ mem'[h] = want[t][n]
    BY <1>15, <2>2, <2>3, FirstArena DEF Commit
  <2>5. \A a \in Addr : a # h => mem'[a] = mem[a]
    BY <1>15, <2>2 DEF Commit
  <2>6. Names(t, n)'
    BY <2>1, <2>2, <2>3, <2>4 DEF Names
  <2>7. ASSUME NEW i \in DOMAIN got[t], Names(t, i) PROVE Names(t, i)'
    <3>1. got[t][i] \in Addr /\ got[t][i][1] = 1 /\ got[t][i][2] <= used[1] /\ got[t][i][2] \in Nat
      BY <2>7 DEF Names, Addr
    <3>2. got[t][i] # h
      BY <3>1
    <3>3. got[t][i][2] <= used'[1]
      BY <2>4, <3>1
    <3> QED
      BY <2>1, <2>5, <2>7, <3>1, <3>2, <3>3 DEF Names
  <2>8. oom'[t] \/ \A i \in DOMAIN got'[t] : Names(t, i)'
    BY <2>1, <2>6, <2>7 DEF Collected
  <2> QED
    BY <2>1, <2>8 DEF Collected
<1>16. CASE Wrapped(t)
  <2>1. /\ pc[t] = "wrap" /\ pc'[t] = "return" /\ Len(got[t]) = Len(want[t]) /\ want[t] = Answer(query[t])
        /\ got' = got /\ query' = query /\ want' = want /\ oom' = oom /\ used' = used /\ mem' = mem
    BY <1>16 DEF Wrapped, shared, Collected, Found
  <2>2. oom'[t] \/ \A i \in DOMAIN got'[t] : Names(t, i)'
    BY <2>1, HandlesKept
  <2> QED
    BY <2>1, <2>2 DEF Collected
<1> QED
  BY <1>1, <1>2, <1>3, <1>4, <1>5, <1>6, <1>7, <1>8, <1>9, <1>10, <1>11, <1>12, <1>13,
     <1>14, <1>15, <1>16 DEF InCall
\* The answers' invariant is inductive, given the sharing invariant.
LEMMA AnswerStep ==
  IInv /\ IInv' /\ Typed /\ AnswerInv /\ "cache" \notin MayFail /\ [Next]_vars => AnswerInv'
<1> SUFFICES ASSUME IInv, IInv', Typed, AnswerInv, "cache" \notin MayFail, [Next]_vars PROVE AnswerInv'
  OBVIOUS
<1>1. CacheInv'
  BY CacheStep DEF AnswerInv
<1>2. CASE UNCHANGED vars
  <2>1. used' = used /\ mem' = mem /\ used[1] \in Nat
    BY <1>2, FirstArena DEF vars, shared, IInv, Shape
  <2>2. \A u \in Threads : /\ pc'[u] = pc[u] /\ query'[u] = query[u] /\ want'[u] = want[u]
                           /\ got'[u] = got[u] /\ loc'[u] = loc[u] /\ oom'[u] = oom[u]
    BY <1>2 DEF vars, local
  <2>3. \A u \in Threads : Found(u)'
    BY <2>2, FoundElsewhere DEF AnswerInv
  <2>4. \A u \in Threads : Collected(u)'
    BY <2>1, <2>2, CollectedElsewhere DEF AnswerInv
  <2> QED
    BY <1>1, <2>1, <2>3, <2>4 DEF AnswerInv
<1>3. ASSUME NEW t \in Threads, Call(t) \/ InCall(t) PROVE AnswerInv'
  <2>1. \A u \in Threads \ {t} :
           /\ pc'[u] = pc[u] /\ query'[u] = query[u] /\ want'[u] = want[u]
           /\ got'[u] = got[u] /\ loc'[u] = loc[u] /\ oom'[u] = oom[u]
    BY <1>3, OthersStand
  <2>2. \A u \in Threads \ {t} : Found(u)'
    BY <2>1, FoundElsewhere DEF AnswerInv
  <2>3. Found(t)'
    BY <1>3, FoundMine
  <2>4. Collected(t)'
    BY <1>3, <2>3, CollectedMine
  <2>5. CASE ~Commit(t)
    <3>1. used' = used /\ mem' = mem /\ used[1] \in Nat
      BY <1>3, <2>5, OnlyCommitWrites, FirstArena DEF IInv, Shape
    <3>2. \A u \in Threads \ {t} : Collected(u)'
      BY <2>1, <3>1, CollectedElsewhere DEF AnswerInv
    <3> QED
      BY <1>1, <2>2, <2>3, <2>4, <3>1, <3>2 DEF AnswerInv
  <2>6. CASE Commit(t)
    <3>1. /\ used[1] \in Nat /\ used[1] < BlockSize * MaxBlocks
          /\ got[t][Len(got[t])] = <<1, used[1] + 1>>
      BY <2>6, FirstArena DEF Commit, At, IInv, Shape, SharingInv, BumpInv, AnswerInv, Collected
    <3>2. used'[1] = used[1] + 1
      BY <2>6, <3>1, FirstArena DEF Commit, IInv, Shape
    <3>3. \A u \in Threads \ {t} : pc[u] # "commit"
      BY <2>6 DEF Commit, At, IInv, SharingInv, BumpInv
    <3>4. ASSUME NEW a \in Addr, a[2] <= used[1] PROVE mem'[a] = mem[a]
      <4>1. a # <<1, used[1] + 1>>
        BY <3>1, <3>4 DEF Addr
      <4> QED
        BY <2>6, <3>1, <4>1 DEF Commit, IInv, Shape
    <3>5. used'[1] \in Nat /\ used[1] <= used'[1]
      BY <3>1, <3>2
    <3>6. \A u \in Threads \ {t} : Collected(u)'
      BY <2>1, <3>3, <3>4, <3>5, CollectedElsewhere DEF AnswerInv
    <3>7. used'[1] <= BlockSize * MaxBlocks
      <4>1. BlockSize * MaxBlocks \in Nat
        BY BoundsAssumption
      <4> QED
        BY <3>1, <3>2, <4>1
    <3> QED
      BY <1>1, <2>2, <2>3, <2>4, <3>6, <3>7 DEF AnswerInv
  <2> QED
    BY <2>5, <2>6
<1> QED
  BY <1>2, <1>3 DEF Next

\* The first state has no answer to be wrong about.
LEMMA AnswerInit == Init => Typed /\ AnswerInv
<1> SUFFICES ASSUME Init PROVE Typed /\ AnswerInv
  OBVIOUS
<1>1. Typed
  BY SomeQueryIs DEF Init, Typed
<1>2. CacheInv
  BY DEF Init, CacheInv
<1>3. used[1] = 0 /\ BlockSize * MaxBlocks \in Nat
  BY FirstArena, BoundsAssumption DEF Init
<1>4. ASSUME NEW t \in Threads PROVE Found(t) /\ Collected(t)
  BY <1>4 DEF Init, Found, Collected, Label, Wrapping
<1>5. used[1] <= BlockSize * MaxBlocks
  BY <1>3
<1> QED
  BY <1>1, <1>2, <1>4, <1>5 DEF AnswerInv

\* A call answers with the nodes the tree has for its query whatever the other
\* threads cache, index or materialize meanwhile, for any number of threads,
\* any tree and any failures but that of the child cache: a failed fill leaves
\* the cache marked and empty for the next reader (dom.c, dom_indexed_child).
THEOREM AnswersAlwaysRight ==
  ASSUME "cache" \notin MayFail
  PROVE  Spec => []AnswersRight
<1> DEFINE J == IInv /\ Typed /\ AnswerInv
<1>1. Init => J
  BY InitHolds, AnswerInit
<1>2. J /\ [Next]_vars => J'
  <2>1. IInv /\ [Next]_vars => IInv'
    BY ShapeStep, TreeStep, ArenaStep, BumpStep DEF IInv, SharingInv
  <2> QED
    BY <2>1, TypedStep, AnswerStep
<1>3. J => AnswersRight
  <2> SUFFICES ASSUME AnswerInv PROVE AnswersRight
    OBVIOUS
  <2> QED
    BY DEF AnswerInv, AnswersRight, Collected, Names, At
<1> HIDE DEF J
<1> QED
  BY <1>1, <1>2, <1>3, PTL DEF Spec
=============================================================================

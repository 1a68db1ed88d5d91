------------------------------ MODULE LazyDoc -------------------------------
(***************************************************************************)
(* One parsed document read by many threads (docs/FFI.md:73-75).  Reading  *)
(* writes: the first access replays the tape into a tree (yep_doc_dom),    *)
(* the first handle creates the handle arena (yep_dom_handles, hpool.c),   *)
(* an indexed read fills the child cache (dom_indexed_child) and a key     *)
(* lookup the mapping's table (yep_midx_lookup).  Each of these is split   *)
(* here where another thread could look: locking, reading, writing and     *)
(* unlocking are steps of their own, and only the mutexes keep them apart. *)
(*                                                                         *)
(* The tree's shape does not change: Kids gives each container's children. *)
(***************************************************************************)
EXTENDS Naturals, Sequences, FiniteSets

CONSTANTS
  Threads,
  Kids,       \* the children of each container, keys and values alternating
  Seqs,       \* the containers that are sequences; the others are mappings
  TextOf,     \* the text of each scalar that is a key
  Asked,      \* the texts that lookups ask for
  NULL,
  MayFail,    \* the allocations that may fail, subset of Sites
  BlockSize,  \* handles in a block of the arena
  MaxBlocks   \* bound: blocks the arena can allocate

Sites == {"replay", "arena", "block", "cache", "index"}
Container == DOMAIN Kids
Maps == Container \ Seqs

ASSUME ThreadsAssumption == IsFiniteSet(Threads) /\ Threads # {} /\ NULL \notin Threads
ASSUME ShapeAssumption ==
  /\ Seqs \subseteq Container /\ NULL \notin Container /\ Container # {}
  /\ \A c \in Container : Kids[c] \in Seq(UNION {{Kids[b][i] : i \in DOMAIN Kids[b]} : b \in Container})
  /\ \A m \in Maps : /\ Len(Kids[m]) % 2 = 0
                     /\ \A i \in DOMAIN Kids[m] : i % 2 = 1 => Kids[m][i] \in DOMAIN TextOf
ASSUME BoundsAssumption == BlockSize \in Nat \ {0} /\ MaxBlocks \in Nat /\ MayFail \subseteq Sites

\* The queries.  Each container is the root of a document of the stream.
Query ==
  [call : {"root", "children"}, of : Container, arg : {0}]
    \union [call : {"seq_at"}, of : Seqs, arg : 1 .. 2]
    \union [call : {"map_at"}, of : Maps, arg : 1 .. 2]
    \union [call : {"map_get"}, of : Maps, arg : Asked]

SomeQuery == CHOOSE q \in Query : q.call = "root"

Mutex == {"lazy", "midx", "hpool"}
ArenaIds == 1 .. Cardinality(Threads)
Addr == ArenaIds \X (1 .. (BlockSize * MaxBlocks))

VARIABLES
  owner,      \* who holds each mutex
  dom,        \* doc->dom: which tree, or 0
  tape,       \* doc->lazy_tape: still there
  trees,      \* trees replayed so far
  handles,    \* dom->handles: which arena, or 0
  arenas,     \* arenas created so far
  used,       \* handles bumped in each arena
  mem,        \* the node that the handle at an address names, or NULL
  cacheId, cache,  \* dom->child_cache_id and the ids behind it
  tabs,       \* the mappings whose table is built
  pc, query,
  want,       \* the nodes the query found, to be wrapped
  got,        \* their handles
  loc,        \* the pointer or offset a thread read and has not used yet
  oom,        \* an allocation of this call failed
  held        \* the containers a thread has a handle of

shared == <<owner, dom, tape, trees, handles, arenas, used, mem, cacheId, cache, tabs>>
local == <<pc, query, want, got, loc, oom, held>>
vars == <<shared, local>>

Init ==
  /\ owner = [m \in Mutex |-> NULL]
  /\ dom = 0 /\ tape = TRUE /\ trees = 0
  /\ handles = 0 /\ arenas = 0 /\ used = [a \in ArenaIds |-> 0]
  /\ mem = [a \in Addr |-> NULL]
  /\ cacheId = NULL /\ cache = << >> /\ tabs = {}
  /\ pc = [t \in Threads |-> "idle"]
  /\ query = [t \in Threads |-> SomeQuery]
  /\ want = [t \in Threads |-> << >>] /\ got = [t \in Threads |-> << >>]
  /\ loc = [t \in Threads |-> 0]
  /\ oom = [t \in Threads |-> FALSE]
  /\ held = [t \in Threads |-> {}]

-----------------------------------------------------------------------------
(* Steps.                                                                  *)

At(t, label) == pc[t] = label
Goto(t, label) == pc' = [pc EXCEPT ![t] = label]
Set(f, t, v) == f' = [f EXCEPT ![t] = v]
Fails(site) == site \in MayFail

Lock(m, t) == owner[m] = NULL /\ owner' = [owner EXCEPT ![m] = t]
Unlock(m) == owner' = [owner EXCEPT ![m] = NULL]

\* A host calls.  Everything but document_root needs a handle.
Call(t) ==
  /\ At(t, "idle")
  /\ \E q \in Query :
       /\ q.call = "root" \/ q.of \in held[t]
       /\ Set(query, t, q)
       /\ Set(want, t, IF q.call = "children" THEN Kids[q.of] ELSE << >>)
       /\ Goto(t, IF q.call = "root" THEN "lazy" ELSE IF q.call = "children" THEN "wrap"
                  ELSE IF q.call = "map_get" THEN "index" ELSE "indexed")
  /\ UNCHANGED <<shared, got, loc, oom, held>>

\* The host takes the answer; the call's variables die.
Return(t) ==
  /\ At(t, "return")
  /\ Goto(t, "idle")
  /\ Set(held, t, IF query[t].call = "root" /\ got[t] # << >> /\ got[t][1] # NULL
                  THEN held[t] \union {query[t].of} ELSE held[t])
  /\ Set(query, t, SomeQuery) /\ Set(want, t, << >>) /\ Set(got, t, << >>)
  /\ Set(loc, t, 0) /\ Set(oom, t, FALSE)
  /\ UNCHANGED shared

-----------------------------------------------------------------------------
(* yep_doc_dom.                                                            *)

\* Mutant: the tree is looked at without the mutex.
LockLazy_Bare(t) ==
  /\ At(t, "lazy")
  /\ Goto(t, IF dom = 0 /\ tape THEN "replay" ELSE "publish")
  /\ Set(loc, t, dom)
  /\ UNCHANGED <<shared, query, want, got, oom, held>>

LockLazy(t) ==
  /\ At(t, "lazy")
  /\ Lock("lazy", t)
  /\ Goto(t, IF dom = 0 /\ tape THEN "replay" ELSE "publish")
  /\ Set(loc, t, dom)
  /\ UNCHANGED <<dom, tape, trees, handles, arenas, used, mem, cacheId, cache, tabs,
                 query, want, got, oom, held>>

\* The replay; a failed one leaves the tape.
Replay(t) ==
  /\ At(t, "replay")
  /\ Goto(t, "publish")
  /\ \/ Fails("replay") /\ Set(oom, t, TRUE) /\ UNCHANGED <<trees, loc>>
     \/ /\ trees' = trees + 1
        /\ Set(loc, t, trees + 1)
        /\ UNCHANGED oom
  /\ UNCHANGED <<owner, dom, tape, handles, arenas, used, mem, cacheId, cache, tabs,
                 query, want, got, held>>

\* doc->dom is set, the tape released, the mutex given back.  A root of a
\* missing tree is NULL.
Publish(t) ==
  /\ At(t, "publish")
  /\ dom' = loc[t]
  /\ tape' = (tape /\ loc[t] = 0)
  /\ Unlock("lazy")
  /\ Set(want, t, IF loc[t] = 0 THEN << >> ELSE <<query[t].of>>)
  /\ Goto(t, IF loc[t] = 0 THEN "return" ELSE "wrap")
  /\ UNCHANGED <<trees, handles, arenas, used, mem, cacheId, cache, tabs,
                 query, got, loc, oom, held>>

-----------------------------------------------------------------------------
(* dom_indexed_child: a miss frees the old array before it makes the new.  *)

Position(q) == IF q.call = "map_at" THEN 2 * q.arg - 1 ELSE q.arg

\* Mutant: the cache is read without the mutex.
LockIndexed_Bare(t) ==
  /\ At(t, "indexed")
  /\ cache' = IF cacheId = query[t].of THEN cache ELSE << >>
  /\ Goto(t, IF Position(query[t]) > Len(Kids[query[t].of]) THEN "return" ELSE "fill")
  /\ UNCHANGED <<owner, dom, tape, trees, handles, arenas, used, mem, cacheId, tabs,
                 query, want, got, loc, oom, held>>

\* The range check of the accessors, on the node's own count.
LockIndexed(t) ==
  /\ At(t, "indexed")
  /\ LET q == query[t]
     IN  IF Position(q) > Len(Kids[q.of])
         THEN Goto(t, "return") /\ UNCHANGED <<owner, cache>>
         ELSE /\ Lock("midx", t)
              /\ cache' = IF cacheId = q.of THEN cache ELSE << >>
              /\ Goto(t, "fill")
  /\ UNCHANGED <<dom, tape, trees, handles, arenas, used, mem, cacheId, tabs,
                 query, want, got, loc, oom, held>>

\* The id is recorded although the array may be missing.
Fill(t) ==
  /\ At(t, "fill")
  /\ LET q == query[t]
         i == Position(q)
     IN  /\ \/ cacheId = q.of /\ UNCHANGED <<cache, oom>>
            \/ cacheId # q.of /\ cache' = Kids[q.of] /\ UNCHANGED oom
            \/ /\ cacheId # q.of /\ Fails("cache") /\ Kids[q.of] # << >>
               /\ Set(oom, t, TRUE) /\ UNCHANGED cache
         /\ cacheId' = q.of
         /\ Set(want, t, IF i > Len(cache') THEN << >>
                         ELSE IF q.call = "seq_at" THEN <<cache'[i]>>
                         ELSE <<cache'[i], Kids[q.of][i + 1]>>)
  /\ Unlock("midx")
  /\ Goto(t, IF want'[t] = << >> THEN "return" ELSE "wrap")
  /\ UNCHANGED <<dom, tape, trees, handles, arenas, used, mem, tabs, query, got, loc, held>>

-----------------------------------------------------------------------------
(* yep_midx_lookup, and the scan of yeptris_node_map_get behind it.        *)

\* The first key with the text, and the value after it.
KeyAt(q) == {i \in DOMAIN Kids[q.of] : i % 2 = 1 /\ TextOf[Kids[q.of][i]] = q.arg}
ValueOf(q) == IF KeyAt(q) = {} THEN << >>
              ELSE <<Kids[q.of][1 + CHOOSE i \in KeyAt(q) : \A j \in KeyAt(q) : i <= j]>>

LockIndex(t) ==
  /\ At(t, "index")
  /\ Lock("midx", t)
  /\ Goto(t, "lookup")
  /\ UNCHANGED <<dom, tape, trees, handles, arenas, used, mem, cacheId, cache, tabs,
                 query, want, got, loc, oom, held>>

\* Mutant: a table without an empty slot, in which the probe for an absent
\* key goes round for ever.
Lookup_FullTable(t) ==
  /\ At(t, "lookup")
  /\ tabs' = tabs \union {query[t].of}
  /\ Set(want, t, ValueOf(query[t]))
  /\ IF want'[t] = << >> THEN UNCHANGED <<owner, pc>> ELSE Unlock("midx") /\ Goto(t, "wrap")
  /\ UNCHANGED <<dom, tape, trees, handles, arenas, used, mem, cacheId, cache,
                 query, got, loc, oom, held>>

\* The slot array or the table may be refused; a miss goes to the scan too.
Lookup(t) ==
  /\ At(t, "lookup")
  /\ \/ /\ query[t].of \notin tabs /\ Fails("index")
        /\ UNCHANGED <<tabs, want>>
        /\ Goto(t, "scan")
     \/ /\ tabs' = tabs \union {query[t].of}
        /\ Set(want, t, ValueOf(query[t]))
        /\ Goto(t, IF want'[t] = << >> THEN "scan" ELSE "wrap")
  /\ Unlock("midx")
  /\ UNCHANGED <<dom, tape, trees, handles, arenas, used, mem, cacheId, cache,
                 query, got, loc, oom, held>>

Scan(t) ==
  /\ At(t, "scan")
  /\ Set(want, t, ValueOf(query[t]))
  /\ Goto(t, IF want'[t] = << >> THEN "return" ELSE "wrap")
  /\ UNCHANGED <<shared, query, got, loc, oom, held>>

-----------------------------------------------------------------------------
(* wrap: one handle for each node found.                                   *)

\* yep_dom_handles.
LockArena(t) ==
  /\ At(t, "wrap")
  /\ Len(got[t]) < Len(want[t])
  /\ Lock("midx", t)
  /\ Goto(t, "arena")
  /\ Set(loc, t, handles)
  /\ UNCHANGED <<dom, tape, trees, handles, arenas, used, mem, cacheId, cache, tabs,
                 query, want, got, oom, held>>

\* The first use creates the arena.  Without one there is no handle.
Arena(t) ==
  /\ At(t, "arena")
  /\ Unlock("midx")
  /\ \/ /\ loc[t] # 0
        /\ Goto(t, "bump")
        /\ UNCHANGED <<arenas, handles, got, loc, oom>>
     \/ /\ loc[t] = 0
        /\ arenas' = arenas + 1 /\ handles' = arenas + 1
        /\ Set(loc, t, arenas + 1)
        /\ Goto(t, "bump")
        /\ UNCHANGED <<got, oom>>
     \/ /\ loc[t] = 0 /\ Fails("arena")
        /\ Set(got, t, Append(got[t], NULL))
        /\ Set(oom, t, TRUE)
        /\ Goto(t, "wrap")
        /\ UNCHANGED <<arenas, handles, loc>>
  /\ UNCHANGED <<dom, tape, trees, used, mem, cacheId, cache, tabs, query, want, held>>

\* Mutant: the bump of the arena is not serialized.
LockBump_Bare(t) ==
  /\ At(t, "bump")
  /\ Goto(t, "bumped")
  /\ UNCHANGED <<shared, query, want, got, loc, oom, held>>

\* yep_hpool_alloc: loc becomes the address read from the head block.
LockBump(t) ==
  /\ At(t, "bump")
  /\ Lock("hpool", t)
  /\ Goto(t, "bumped")
  /\ UNCHANGED <<dom, tape, trees, handles, arenas, used, mem, cacheId, cache, tabs,
                 query, want, got, loc, oom, held>>

BlockFull(a) == used[a] % BlockSize = 0
Exhausted(a) == used[a] = BlockSize * MaxBlocks

\* Reading the head block: the next address, unless a new block is refused.
ReadBlock(t) ==
  /\ At(t, "bumped")
  /\ \/ /\ ~Exhausted(loc[t])
        /\ Goto(t, "commit")
        /\ Set(got, t, Append(got[t], <<loc[t], used[loc[t]] + 1>>))
        /\ UNCHANGED <<owner, oom>>
     \/ /\ BlockFull(loc[t]) /\ (Exhausted(loc[t]) \/ (Fails("block") /\ used[loc[t]] > 0))
        /\ Goto(t, "wrap")
        /\ Set(got, t, Append(got[t], NULL))
        /\ Set(oom, t, TRUE)
        /\ Unlock("hpool")
  /\ UNCHANGED <<dom, tape, trees, handles, arenas, used, mem, cacheId, cache, tabs,
                 query, want, loc, held>>

\* used is written, the mutex given back and the handle filled in.
Commit(t) ==
  /\ At(t, "commit")
  /\ LET h == got[t][Len(got[t])]
     IN  /\ used' = [used EXCEPT ![h[1]] = h[2]]
         /\ mem' = [mem EXCEPT ![h] = want[t][Len(got[t])]]
  /\ Unlock("hpool")
  /\ Goto(t, "wrap")
  /\ UNCHANGED <<dom, tape, trees, handles, arenas, cacheId, cache, tabs,
                 query, want, got, loc, oom, held>>

Wrapped(t) ==
  /\ At(t, "wrap")
  /\ Len(got[t]) = Len(want[t])
  /\ Goto(t, "return")
  /\ UNCHANGED <<shared, query, want, got, loc, oom, held>>

-----------------------------------------------------------------------------

InCall(t) ==
  \/ Return(t)
  \/ LockLazy(t) \/ Replay(t) \/ Publish(t)
  \/ LockIndexed(t) \/ Fill(t)
  \/ LockIndex(t) \/ Lookup(t) \/ Scan(t)
  \/ LockArena(t) \/ Arena(t) \/ LockBump(t) \/ ReadBlock(t) \/ Commit(t) \/ Wrapped(t)

Next == \E t \in Threads : Call(t) \/ InCall(t)

\* A thread inside a call is scheduled again and again; no fairness of the
\* mutexes is assumed.
Spec == Init /\ [][Next]_vars /\ \A t \in Threads : WF_vars(InCall(t))

-----------------------------------------------------------------------------
(* Properties.                                                             *)

Wrapping == {"wrap", "arena", "bump", "bumped", "commit"}
Label == {"idle", "return", "lazy", "replay", "publish", "indexed", "fill", "index", "lookup",
          "scan", "wrap", "arena", "bump", "bumped", "commit"}

\* Every thread is at a step of the code, and a handle lies in a block the
\* arena has (hpool.c:60-100).
TypeOK ==
  /\ owner \in [Mutex -> Threads \union {NULL}]
  /\ dom \in Nat /\ tape \in BOOLEAN /\ trees \in Nat
  /\ handles \in Nat /\ arenas \in Nat
  /\ used \in [ArenaIds -> 0 .. (BlockSize * MaxBlocks)]
  /\ cacheId \in Container \union {NULL} /\ tabs \in SUBSET Container
  /\ pc \in [Threads -> Label]
  /\ query \in [Threads -> Query]
  /\ loc \in [Threads -> Nat]
  /\ oom \in [Threads -> BOOLEAN]
  /\ held \in [Threads -> SUBSET Container]

\* However many threads make the first access at once, one tree is built, all
\* of them get that tree, and the tape goes with its publication.
OneTree ==
  /\ trees <= 1
  /\ \A t \in Threads : At(t, "wrap") \/ held[t] # {} => dom = 1 /\ ~tape

\* yep_doc_dom holds lazy_mu from its look at doc->dom to the publication;
\* only then are there a tree that is not the document's and a stale look.
TreeInv ==
  /\ trees \in {0, 1} /\ dom \in {0, trees} /\ tape = (dom = 0)
  /\ owner["lazy"] = NULL => dom = trees
  /\ \A t \in Threads :
       /\ pc[t] \in {"replay", "publish"} => owner["lazy"] = t
       /\ pc[t] = "replay" => trees = 0 /\ loc[t] = 0
       /\ pc[t] = "publish" => loc[t] = trees
       /\ \/ pc[t] \in Label \ {"idle", "lazy", "replay", "publish", "return"}
          \/ held[t] # {}
          \/ got[t] # << >>
          => dom = 1

\* The arena pointer is read and set under midx.mu; whoever allocates has it.
ArenaInv ==
  /\ arenas \in {0, 1} /\ handles = arenas
  /\ \A t \in Threads :
       /\ pc[t] \in {"arena", "fill", "lookup"} => owner["midx"] = t
       /\ pc[t] = "arena" => loc[t] = handles
       /\ pc[t] \in {"bump", "bumped", "commit"} => loc[t] = 1 /\ handles = 1

\* The next address is read and committed under the arena's mutex, and lies
\* above every handle given out.
BumpInv ==
  /\ \A t \in Threads :
       /\ pc[t] \in {"bumped", "commit"} => owner["hpool"] = t
       /\ pc[t] = "commit" => got[t][Len(got[t])] = <<1, used[1] + 1>>
  /\ \A a \in Addr : mem[a] # NULL => a[1] = handles /\ a[2] <= used[1]

\* What the mutexes keep apart at every step, stated as one inductive invariant
\* of the three lazy initializations (parse.c:70-74, dom.c:591-596).
SharingInv == TreeInv /\ ArenaInv /\ BumpInv

\* Every handle a document ever gave out lies in the one arena that
\* document_free releases (hpool.c:3-9).
OneArena ==
  \A a \in Addr : mem[a] # NULL => a[1] = handles

\* However many threads meet in the first accesses, the document has one tree and one arena,
\* every reader works on that tree and every handle lies in that arena (parse.c, yep_doc_dom;
\* dom.c, the handle pool), so that document_free reclaims what was ever given out.
OneOfEach == OneTree /\ OneArena

\* A handle names the same node as long as the document lives: no later
\* allocation of any thread reuses its place.
HandlesStable ==
  [][\A a \in Addr : mem[a] # NULL => mem'[a] = mem[a]]_vars

\* What a query should answer in this tree.
Answer(q) ==
  CASE q.call = "root" -> <<q.of>>
    [] q.call = "children" -> Kids[q.of]
    [] q.call = "seq_at" -> IF q.arg <= Len(Kids[q.of]) THEN <<Kids[q.of][q.arg]>> ELSE << >>
    [] q.call = "map_at" -> IF 2 * q.arg <= Len(Kids[q.of])
                            THEN <<Kids[q.of][2 * q.arg - 1], Kids[q.of][2 * q.arg]>> ELSE << >>
    [] q.call = "map_get" -> ValueOf(q)

\* A call answers with the nodes the tree has for its query, in their order,
\* whatever the other threads cache, index or materialize meanwhile; it
\* answers less only when an allocation of its own failed.
AnswersRight ==
  \A t \in Threads : At(t, "return") =>
    \/ oom[t]
    \/ Len(got[t]) = Len(Answer(query[t]))
       /\ \A i \in DOMAIN got[t] : mem[got[t][i]] = Answer(query[t])[i]

\* The cache holds the children of the container it is marked with, except
\* while a thread that missed has freed them and not yet filled in its own.
CacheInv ==
  cacheId # NULL =>
    \/ cache = Kids[cacheId]
    \/ \E t \in Threads : At(t, "fill") /\ query[t].of # cacheId

\* Which calls come to which steps, and what they have found when they wrap.
Found(t) ==
  /\ pc[t] \in {"lazy", "replay", "publish"} => query[t].call = "root"
  /\ pc[t] \in {"indexed", "fill"} => query[t].call \in {"seq_at", "map_at"}
  /\ pc[t] \in {"index", "lookup", "scan"} => query[t].call = "map_get"
  /\ pc[t] = "publish" /\ loc[t] = 0 => oom[t]
  /\ pc[t] \in Wrapping => want[t] = Answer(query[t])

\* The handle at place i of a thread's answer names the node it should.
Names(t, i) ==
  /\ got[t][i] \in Addr /\ got[t][i][1] = 1 /\ got[t][i][2] <= used[1]
  /\ mem[got[t][i]] = Answer(query[t])[i]

\* The handles of a call, while it collects them and when it has them all.
Collected(t) ==
  /\ pc[t] \in Label \ (Wrapping \union {"return"}) => got[t] = << >>
  /\ pc[t] = "wrap" => Len(got[t]) <= Len(want[t])
  /\ pc[t] \in {"arena", "bump", "bumped"} => Len(got[t]) < Len(want[t])
  /\ pc[t] = "commit" => Len(got[t]) \in 1 .. Len(want[t]) /\ used[1] < BlockSize * MaxBlocks
  /\ oom[t] \/ \A i \in DOMAIN got[t] : Names(t, i) \/ (pc[t] = "commit" /\ i = Len(got[t]))
  /\ pc[t] = "return" => oom[t] \/ Len(got[t]) = Len(Answer(query[t]))

\* Why the answers are right: the cache is coherent whenever its mutex is free
\* (dom.c, dom_indexed_child), a thread wraps what its query found, and no
\* handle it has is overwritten before it returns (hpool.c).
AnswerInv ==
  /\ CacheInv
  /\ used[1] <= BlockSize * MaxBlocks
  /\ \A t \in Threads : Found(t) /\ Collected(t)

\* Whoever takes a mutex gives it back: no path leaves with one, and no
\* thread waits for another inside a critical section.
LocksReleased ==
  \A m \in Mutex : owner[m] # NULL ~> owner[m] = NULL
=============================================================================

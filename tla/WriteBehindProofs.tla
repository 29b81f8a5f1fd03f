---- MODULE WriteBehindProofs ----
(***************************************************************************)
(* Proofs about the two parts that write behind their callers.             *)
(*                                                                         *)
(* The node store, for any objects, clients and prefetch threads: the      *)
(* batch writer implements a write-behind queue, the database uses it as   *)
(* one, a stored object is missed only after an eviction, and waitReads    *)
(* returns only when the reads posted before it are taken.                 *)
(*                                                                         *)
(* The validations, for any validators: every validation received is in    *)
(* exactly one place or was outdated, and the writer of stale ones         *)
(* implements a write-behind queue.                                        *)
(***************************************************************************)
EXTENDS NodeStore, Validations, FiniteSetTheorems, WellFoundedInduction, TLAPS

----
(* The batch writer. *)

\* The flag says exactly whether there is a task; without a task nothing waits
\* to be written, and only a task at the write holds a batch.  The destructor
\* runs after the last task.
WriterInv ==
  /\ mWriteSet \subseteq Objects /\ set \subseteq Objects /\ disk \subseteq Objects
  /\ mWritePending \in BOOLEAN
  /\ writer \in {"none", "queued", "swap", "write"}
  /\ destructor \in {"none", "check", "asleep", "done"}
  /\ mWritePending <=> writer # "none"
  /\ writer = "none" => mWriteSet = {}
  /\ writer # "write" => set = {}
  /\ destructor # "none" => writer = "none"

\* The constructor establishes the writer's invariant.
LEMMA WriterInit == BatchInit => WriterInv
  BY Zenon DEF BatchInit, WriterInv

\* Every step of store(), the task and the destructor keeps it.
LEMMA WriterNext == WriterInv /\ [BatchNext]_batchVars => WriterInv'
<1> SUFFICES ASSUME WriterInv, [BatchNext]_batchVars PROVE WriterInv'
  OBVIOUS
<1>1. CASE \E o \in Objects : BatchStore(o)
  BY <1>1 DEF BatchStore, WriterInv
<1>2. CASE StartTask
  BY <1>2 DEF StartTask, WriterInv
<1>3. CASE SwapBatch
  BY Zenon, <1>3 DEF SwapBatch, WriterInv
<1>4. CASE WriteBatch
  BY <1>4 DEF WriteBatch, WriterInv
<1>5. CASE Destroy \/ WaitForWriting
  BY <1>5 DEF Destroy, TasksDone, WaitForWriting, WriterInv
<1>6. CASE UNCHANGED batchVars
  BY <1>6 DEF batchVars, WriterInv
<1> QED BY <1>1, <1>2, <1>3, <1>4, <1>5, <1>6 DEF BatchNext, TaskStep

\* An empty batch writer is an empty write-behind queue.
LEMMA WriterInitImplements == BatchInit => WB!Init
  BY DEF BatchInit, WB!Init, Unwritten

\* Every step of the batch writer is a step of the write-behind queue, or none:
\* store() hands over, the write saves, the destructor begins and ends a wait.
LEMMA WriterStepImplements ==
  WriterInv /\ [BatchNext]_batchVars => [WB!Next]_(WB!vars)
<1> SUFFICES ASSUME WriterInv, [BatchNext]_batchVars PROVE [WB!Next]_(WB!vars)
  OBVIOUS
<1> USE DEF WB!vars
<1>1. ASSUME NEW o \in Objects, BatchStore(o) PROVE WB!Next
  <2>1. {o} \in SUBSET Objects /\ WB!Accept({o})
    BY <1>1 DEF BatchStore, WB!Accept, Unwritten, WriterInv
  <2> QED BY <2>1 DEF WB!Next
<1>2. CASE StartTask
  BY <1>2 DEF StartTask, Unwritten
<1>3. CASE SwapBatch
  <2>1. Unwritten' = Unwritten /\ disk' = disk
    BY <1>3 DEF SwapBatch, Unwritten, WriterInv
  <2>2. destructor' \in {"check", "asleep"} <=> destructor \in {"check", "asleep"}
    BY <1>3 DEF SwapBatch
  <2> QED BY <2>1, <2>2
<1>4. CASE WriteBatch
  <2>1. set \in SUBSET Objects /\ WB!Save(set)
    BY <1>4 DEF WriteBatch, WB!Save, Unwritten, WriterInv
  <2> QED BY <2>1 DEF WB!Next
<1>5. CASE Destroy
  <2>1. {} \in SUBSET Objects /\ WB!BeginWait({})
    BY <1>5 DEF Destroy, WB!BeginWait, Unwritten
  <2> QED BY <2>1 DEF WB!Next
<1>6. CASE WaitForWriting
  <2>1. CASE mWritePending
    BY <1>6, <2>1 DEF WaitForWriting, Unwritten
  <2>2. CASE ~mWritePending
    <3>1. WB!EndWait
      BY <1>6, <2>2 DEF WaitForWriting, WB!EndWait, Unwritten, WriterInv
    <3> QED BY <3>1 DEF WB!Next
  <2> QED BY <2>1, <2>2
<1>7. CASE UNCHANGED batchVars
  BY <1>7 DEF batchVars, Unwritten
<1> QED BY <1>1, <1>2, <1>3, <1>4, <1>5, <1>6, <1>7 DEF BatchNext, TaskStep

\* BatchWriter implements the write-behind queue: nothing it was given is
\* dropped, and its destructor returns only when everything is on disk.
THEOREM BatchWriterImplements == BatchSpec => WB!Spec
<1>1. BatchInit => WriterInv /\ WB!Init
  BY WriterInit, WriterInitImplements
<1>2. WriterInv /\ [BatchNext]_batchVars => WriterInv' /\ [WB!Next]_(WB!vars)
  BY WriterNext, WriterStepImplements
<1> QED BY <1>1, <1>2, PTL DEF BatchSpec, WB!Spec

----
(* The database over its batch writer. *)

Fetching == {"cache", "neg", "disk", "recheck", "giveup", "keep"}
PastCache == {"neg", "disk", "recheck", "giveup"}

\* What holds of a thread.  A client inside store() has an object to store, and
\* past the first step it has put it into the cache.  A fetch that began after
\* store() returned, and is past the cache lookup, has seen the object gone.
ThreadInv(u) ==
  /\ u \in Clients /\ pc[u] \in {"store1", "store2", "store3"} => key[u] \in Objects
  /\ u \in Clients /\ pc[u] \in {"store2", "store3"} => key[u] \in m_cache \cup evicted
  /\ u \in late => /\ pc[u] \in Fetching /\ key[u] \in returned
                  /\ (pc[u] \in PastCache => key[u] \in evicted)

DbInv ==
  /\ pc = [t \in Threads |-> pc[t]] /\ key = [t \in Threads |-> key[t]]
  /\ late \subseteq Threads
  /\ returned \subseteq m_cache \cup evicted
  /\ missed \subseteq evicted
  /\ \A u \in Threads : ThreadInv(u)

\* Whatever the database does, its batch writer takes one of its own steps or
\* none: store() is called for objects only, and the writer is destroyed once.
LEMMA StepOfWriter ==
  ASSUME DbInv, [Next]_vars PROVE [BatchNext]_batchVars
<1>1. CASE \E c \in Clients : \/ \E k \in Objects : StartFetch(c, k) \/ StartStore(c, k)
                              \/ \E k \in Posted : StartAsync(c, k)
                              \/ AsyncFetch(c) \/ StartWait(c) \/ WaitReads(c)
  BY <1>1 DEF StartFetch, StartStore, StartAsync, AsyncFetch, StartWait, WaitReads
<1>2. ASSUME NEW c \in Clients, Store(c) PROVE [BatchNext]_batchVars
  <2>1. CASE pc[c] = "store2"
    <3>1. key[c] \in Objects
      BY <2>1 DEF DbInv, ThreadInv, Threads
    <3> QED BY <1>2, <2>1, <3>1 DEF Store, BatchNext
  <2>2. CASE pc[c] # "store2"
    BY <1>2, <2>2 DEF Store
  <2> QED BY <2>1, <2>2
<1>3. CASE (\E t \in Threads : DoFetch(t)) \/ (\E r \in Readers : ThreadEntry(r)) \/ Evict \/ Shut
  BY <1>3 DEF DoFetch, ThreadEntry, Evict, Shut
<1>4. CASE Join \/ ((TaskStep \/ WaitForWriting) /\ UNCHANGED dbVars)
  BY <1>4 DEF Join, BatchNext
<1>5. CASE UNCHANGED vars
  BY <1>5 DEF vars
<1> QED BY <1>1, <1>2, <1>3, <1>4, <1>5 DEF Next

\* A step of thread t leaves what holds of the others alone.
LEMMA Others ==
  ASSUME DbInv, NEW t,
         \A u \in Threads \ {t} :
            /\ key'[u] = key[u]
            /\ \/ pc'[u] = pc[u]
               \/ pc[u] \in {"asleep", "waiting"} /\ pc'[u] \in {"top", "check"},
         m_cache \cup evicted \subseteq m_cache' \cup evicted',
         evicted \subseteq evicted', returned \subseteq returned',
         \A u \in Threads \ {t} : u \in late' => u \in late
  PROVE  \A u \in Threads \ {t} : ThreadInv(u)'
<1> SUFFICES ASSUME NEW u \in Threads \ {t} PROVE ThreadInv(u)'
  OBVIOUS
<1>1. ThreadInv(u)
  BY DEF DbInv
<1>2. CASE pc'[u] = pc[u]
  BY <1>1, <1>2 DEF ThreadInv
<1>3. CASE pc[u] \in {"asleep", "waiting"} /\ pc'[u] \in {"top", "check"}
  BY <1>1, <1>3 DEF ThreadInv, Fetching
<1> QED BY <1>2, <1>3

\* A new database.
LEMMA DbInit == Init => DbInv
  BY DEF Init, DbInv, ThreadInv

\* Every step of a client, a prefetch thread, the caches and the destructor.
LEMMA DbNext == DbInv /\ [Next]_vars => DbInv'
<1> SUFFICES ASSUME DbInv, [Next]_vars PROVE DbInv'
  OBVIOUS
<1> USE KeysAssumption
<1>1. ASSUME NEW c \in Clients, NEW k \in Objects, StartFetch(c, k) PROVE DbInv'
  <2>1. \A u \in Threads \ {c} : ThreadInv(u)'
    BY <1>1, Others DEF DbInv, StartFetch, Begin, Goto, cacheVars, evictVars
  <2>2. ThreadInv(c)'
    BY <1>1 DEF DbInv, ThreadInv, StartFetch, Begin, Goto, Threads, Fetching, PastCache
  <2> QED BY Zenon, <1>1, <2>1, <2>2
    DEF DbInv, StartFetch, Begin, Goto, cacheVars, evictVars, Threads
<1>2. ASSUME NEW c \in Clients, NEW k, NEW label \in {"store1", "async1", "check"},
             Begin(c, label, k), label = "store1" => k \in Objects,
             UNCHANGED <<m_cache, evicted, returned, late, missed>>
      PROVE  DbInv'
  <2>1. \A u \in Threads \ {c} : ThreadInv(u)'
    BY Zenon, <1>2, Others DEF DbInv, Begin, Goto
  <2>2. ThreadInv(c)'
    BY Zenon, <1>2 DEF DbInv, ThreadInv, Begin, Goto, Threads, Fetching
  <2> QED BY Zenon, <1>2, <2>1, <2>2 DEF DbInv, Begin, Goto
<1>3. ASSUME NEW c \in Clients, Store(c) PROVE DbInv'
  <2>1. \A u \in Threads \ {c} : ThreadInv(u)'
    BY <1>3, Others DEF DbInv, Store, Goto, Canonicalize, cacheVars, evictVars
  <2>2. ThreadInv(c)'
    BY <1>3 DEF DbInv, ThreadInv, Store, Goto, Canonicalize, Threads, Fetching, cacheVars, evictVars
  <2>3. returned' \subseteq m_cache' \cup evicted'
    BY <1>3 DEF DbInv, ThreadInv, Store, Canonicalize, Threads, cacheVars, evictVars
  <2> QED BY <1>3, <2>1, <2>2, <2>3 DEF DbInv, Store, Goto, evictVars
<1>4. ASSUME NEW c \in Clients, AsyncFetch(c) PROVE DbInv'
  <2> DEFINE p == [pc EXCEPT ![c] = "idle"]
  <2>1. c \in Threads /\ pc[c] \in {"async1", "async2", "async3"}
    BY <1>4 DEF AsyncFetch, Threads
  <2>2. \/ pc' = p \/ pc' \in NotifyOne(p)
        \/ pc' = [pc EXCEPT ![c] = "async2"] \/ pc' = [pc EXCEPT ![c] = "async3"]
    BY <1>4 DEF AsyncFetch, Goto
  <2>3. p = [t \in Threads |-> p[t]] /\ p[c] = "idle" /\ \A u \in Threads \ {c} : p[u] = pc[u]
    BY <2>1 DEF DbInv
  <2>4. ASSUME pc' \in NotifyOne(p)
        PROVE  \/ pc' = p
               \/ \E r \in Readers : p[r] = "asleep" /\ pc' = [p EXCEPT ![r] = "top"]
    BY <2>4 DEF NotifyOne
  <2>5. /\ pc' = [t \in Threads |-> pc'[t]]
        /\ pc'[c] \in {"idle", "async2", "async3"}
        /\ \A u \in Threads \ {c} : pc'[u] = pc[u] \/ (pc[u] = "asleep" /\ pc'[u] = "top")
    <3>1. CASE pc' = p
      BY <2>3, <3>1
    <3>2. CASE \E r \in Readers : p[r] = "asleep" /\ pc' = [p EXCEPT ![r] = "top"]
      <4> HIDE DEF p
      <4> QED BY Zenon, <2>3, <3>2 DEF Threads
    <3>3. CASE pc' = [pc EXCEPT ![c] = "async2"] \/ pc' = [pc EXCEPT ![c] = "async3"]
      BY <2>1, <3>3 DEF DbInv
    <3> HIDE DEF p
    <3> QED BY <2>2, <2>4, <3>1, <3>2, <3>3
  <2>6. key' = [t \in Threads |-> key'[t]] /\ \A u \in Threads \ {c} : key'[u] = key[u]
    BY Zenon, <1>4, <2>1 DEF AsyncFetch, DbInv
  <2>7. UNCHANGED <<m_cache, evicted, returned, late, missed>>
    BY <1>4 DEF AsyncFetch, cacheVars, evictVars, history
  <2> HIDE DEF p
  <2>8. \A u \in Threads \ {c} : ThreadInv(u)'
    BY <2>5, <2>6, <2>7, Others
  <2>9. ThreadInv(c)'
    BY <2>1, <2>5, <2>7 DEF DbInv, ThreadInv, Fetching
  <2> QED BY <2>5, <2>6, <2>7, <2>8, <2>9 DEF DbInv
<1>5. ASSUME NEW c \in Clients, WaitReads(c) PROVE DbInv'
  <2>1. \A u \in Threads \ {c} : ThreadInv(u)'
    BY <1>5, Others DEF DbInv, WaitReads, Goto, cacheVars, evictVars, history
  <2>2. ThreadInv(c)'
    BY <1>5 DEF DbInv, ThreadInv, WaitReads, Goto, Threads, Fetching, history
  <2> QED BY <1>5, <2>1, <2>2 DEF DbInv, WaitReads, Goto, cacheVars, evictVars, history
<1>6. ASSUME NEW t \in Threads, DoFetch(t) PROVE DbInv'
  <2>1. \A u \in Threads \ {t} : ThreadInv(u)'
    BY <1>6, Others DEF DbInv, DoFetch, FetchCache, FetchNeg, FetchDisk, FetchRecheck, FetchGiveUp,
       FetchKeep, Return, Continue, Goto, Canonicalize, cacheVars, evictVars
  <2>2. ThreadInv(t)' /\ missed' \subseteq evicted'
    BY <1>6
       DEF DbInv, ThreadInv, DoFetch, FetchCache, FetchNeg, FetchDisk, FetchRecheck, FetchGiveUp,
           FetchKeep, Return, Continue, Goto, Canonicalize, cacheVars, evictVars, Rest, Fetching,
           PastCache
  <2> QED BY <1>6, <2>1, <2>2 DEF DbInv, DoFetch, FetchCache, FetchNeg, FetchDisk, FetchRecheck,
       FetchGiveUp, FetchKeep, Return, Continue, Goto, Canonicalize, cacheVars, evictVars
<1>7. ASSUME NEW r \in Readers, ThreadEntry(r) PROVE DbInv'
  <2>1. \A u \in Threads \ {r} : ThreadInv(u)'
    BY Zenon, <1>7, Others DEF DbInv, ThreadEntry, Goto, NotifyGen, cacheVars, evictVars
  <2>2. ThreadInv(r)'
    BY Zenon, <1>7
      DEF DbInv, ThreadInv, ThreadEntry, Goto, NotifyGen, Threads, Fetching, PastCache,
          cacheVars, evictVars
  <2> QED BY <1>7, <2>1, <2>2 DEF DbInv, ThreadEntry, Goto, NotifyGen, cacheVars, evictVars, Threads
<1>8. CASE Evict
  BY <1>8 DEF DbInv, ThreadInv, Evict, callVars, history
<1>9. CASE Shut
  BY <1>9 DEF DbInv, ThreadInv, Shut, cacheVars, evictVars, history, Fetching, PastCache
<1>10. CASE UNCHANGED dbVars
  BY <1>10 DEF DbInv, ThreadInv, dbVars, cacheVars, evictVars, history, callVars
<1>11. ASSUME NEW c \in Clients, NEW k \in Objects, StartStore(c, k) PROVE DbInv'
  BY <1>2, <1>11 DEF StartStore, cacheVars, evictVars, history
<1>12. ASSUME NEW c \in Clients, NEW k \in Posted, StartAsync(c, k) PROVE DbInv'
  BY <1>2, <1>12 DEF StartAsync, cacheVars, evictVars, history
<1>13. ASSUME NEW c \in Clients, StartWait(c) PROVE DbInv'
  BY <1>2, <1>13 DEF StartWait, cacheVars, evictVars, history
<1>14. CASE UNCHANGED vars
  BY <1>10, <1>14 DEF vars
<1> QED BY <1>1, <1>3, <1>4, <1>5, <1>6, <1>7, <1>8, <1>9, <1>10, <1>11, <1>12, <1>13, <1>14
        DEF Next, Join

\* A fetch that begins after store() of its object returned finds it, unless the
\* positive cache has dropped it.
THEOREM StoredIsMissedOnlyIfEvicted == Spec => []MissedOnlyIfEvicted
<1>1. DbInv => MissedOnlyIfEvicted
  BY DEF DbInv, MissedOnlyIfEvicted
<1> QED BY <1>1, DbInit, DbNext, PTL DEF Spec

\* The database uses its batch writer as a write-behind queue: whatever store()
\* was given is written, and the backend is closed only after that.
THEOREM NodeStoreImplements == Spec => WB!Spec
<1>1. Init => DbInv /\ BatchInit
  BY DbInit DEF Init
<1>2. DbInv /\ [Next]_vars => DbInv' /\ [BatchNext]_batchVars
  BY DbNext, StepOfWriter
<1>3. Spec => BatchSpec
  BY <1>1, <1>2, PTL DEF Spec, BatchSpec
<1> QED BY <1>3, BatchWriterImplements

----
(* Waiting for the reads that are posted. *)

\* A set of naturals that is not empty has a smallest element, and Min names it.
LEMMA MinOf ==
  ASSUME NEW S \in SUBSET Nat, S # {}
  PROVE Min(S) \in S /\ \A x \in S : Min(S) <= x
<1> DEFINE R == OpToRel(<, Nat)
<1>1. IsWellFoundedOn(R, Nat)
  BY Zenon, NatLessThanWellFounded
<1>2. PICK x \in S : \A y \in S : ~(<<y, x>> \in R)
  <2> HIDE DEF R
  <2> QED BY Zenon, <1>1, WFMin
<1>3. \A y \in S : x <= y
  <2> TAKE y \in S
  <2>1. y \in Nat /\ x \in Nat /\ <<y, x>> \in Nat \X Nat
    OBVIOUS
  <2>2. ~(y < x)
    BY <2>1, <1>2 DEF OpToRel
  <2> QED BY <2>1, <2>2
<1> QED BY Zenon, <1>3 DEF Min

Posting == {"async1", "async2", "async3"}

\* What a client in waitReads still waits for is in the set of reads.  In the last
\* generation it is ahead of the last read, so the wrap that ends the generation
\* finds none of it left.
WaitOf(c) ==
  /\ ~m_readShut /\ owed[c] \subseteq m_readSet /\ gens[c] <= 2
  /\ gens[c] = 1 => \A k \in owed[c] : k >= m_readLast
  /\ gens[c] = 0 => owed[c] = {}

WaitInv ==
  /\ m_readSet \subseteq Nat /\ m_readLast \in Nat
  /\ gens \in [Clients -> Nat] /\ owed = [c \in Clients |-> owed[c]]
  /\ \A c \in Clients : pc[c] \in Posting => key[c] \in Nat
  /\ \A c \in Clients : InWait(c) => WaitOf(c)

\* A new database.
LEMMA WaitInit == Init => WaitInv
<1> SUFFICES ASSUME Init PROVE WaitInv
  OBVIOUS
<1>1. \A c \in Clients : pc[c] = "idle"
  BY KeysAssumption DEF Init, Threads
<1>2. m_readLast \in Nat
  BY KeysAssumption DEF Init
<1> QED BY <1>1, <1>2 DEF Init, WaitInv, InWait, Posting

\* A step that only posts a read, or none, and lets no client into waitReads.
LEMMA WaitKept ==
  ASSUME WaitInv, UNCHANGED <<m_readLast, m_readShut, gens, owed>>,
         m_readSet \subseteq m_readSet', m_readSet' \subseteq Nat,
         \A c \in Clients : InWait(c)' => InWait(c),
         \A c \in Clients : pc'[c] \in Posting => key'[c] \in Nat
  PROVE WaitInv'
<1>1. ASSUME NEW c \in Clients, InWait(c)' PROVE WaitOf(c)'
  <2>1. WaitOf(c)
    BY <1>1 DEF WaitInv
  <2> QED BY Zenon, <2>1 DEF WaitOf
<1> QED BY <1>1 DEF WaitInv

\* A prefetch thread takes the next read: the smallest one ahead of the last, or,
\* when the generation ends, the smallest of all.
LEMMA ReadKeepsWait ==
  ASSUME WaitInv, DbInv, NEW r \in Readers, ThreadEntry(r), ~m_readShut, m_readSet # {}
  PROVE WaitInv'
<1> DEFINE wraps == Ahead = {}
           from == IF wraps THEN m_readSet ELSE Ahead
           hash == Min(from)
<1>1. /\ m_readSet' = m_readSet \ {hash} /\ m_readLast' = hash
      /\ owed' = [c \in Clients |-> owed[c] \ {hash}]
      /\ gens' = [c \in Clients |-> IF wraps /\ gens[c] > 0 THEN gens[c] - 1 ELSE gens[c]]
      /\ key' = [key EXCEPT ![r] = hash]
      /\ pc' = [(IF wraps THEN NotifyGen(pc) ELSE pc) EXCEPT ![r] = "cache"]
      /\ UNCHANGED m_readShut
  BY DEF ThreadEntry
<1>2. from \in SUBSET Nat /\ from # {} /\ from \subseteq m_readSet
  BY DEF WaitInv, Ahead
<1>3. hash \in from /\ \A x \in from : hash <= x
  <2> HIDE DEF from
  <2> QED BY Zenon, <1>2, MinOf
<1>4. hash \in Nat
  BY <1>2, <1>3
<1>5. \A c \in Clients : c # r /\ c \in Threads
  BY KeysAssumption DEF Threads
<1>6. \A c \in Clients : /\ key'[c] = key[c]
                         /\ pc'[c] = pc[c] \/ (pc[c] = "waiting" /\ pc'[c] = "check")
  BY Zenon, <1>1, <1>5 DEF DbInv, NotifyGen
<1>7. ASSUME NEW c \in Clients
      PROVE /\ owed'[c] = owed[c] \ {hash} /\ gens[c] \in Nat
            /\ gens'[c] = IF wraps /\ gens[c] > 0 THEN gens[c] - 1 ELSE gens[c]
  BY <1>1 DEF WaitInv
<1>8. ASSUME NEW c \in Clients, InWait(c)' PROVE WaitOf(c)'
  <2>1. WaitOf(c)
    BY <1>6, <1>8 DEF InWait, WaitInv
  <2>2. ~m_readShut' /\ owed'[c] \subseteq m_readSet'
    BY <1>1, <1>7, <2>1 DEF WaitOf
  <2>3. /\ owed[c] \subseteq m_readSet /\ m_readSet \subseteq Nat
        /\ m_readLast \in Nat /\ gens[c] \in Nat
    BY <1>7, <2>1 DEF WaitInv, WaitOf
  <2>4. CASE wraps
    <3>1. \A k \in m_readSet : hash <= k /\ ~(k >= m_readLast)
      BY <1>3, <2>4 DEF Ahead
    <3>2. gens[c] = 1 => owed[c] = {}
      BY Zenon, <2>1, <2>3, <3>1 DEF WaitOf
    <3>3. gens'[c] = 1 => gens[c] = 2
      BY <1>7, <2>3, <2>4
    <3>4. gens'[c] = 0 => owed[c] = {}
      BY <1>7, <2>1, <2>3, <2>4, <3>2 DEF WaitOf
    <3>5. gens'[c] <= 2
      BY <1>7, <2>1, <2>3, <2>4 DEF WaitOf
    <3>6. \A k \in owed'[c] : k >= hash
      <4> HIDE DEF hash
      <4> QED BY Zenon, <1>4, <1>7, <2>3, <3>1
    <3> HIDE DEF hash, wraps
    <3> QED BY <1>1, <1>7, <2>2, <3>4, <3>5, <3>6 DEF WaitOf
  <2>5. CASE ~wraps
    <3>1. \A k \in m_readSet : k >= m_readLast => hash <= k
      BY <1>3, <2>5 DEF Ahead
    <3>2. gens'[c] = gens[c]
      BY <1>7, <2>5
    <3>3. gens[c] = 1 => \A k \in owed'[c] : k >= hash
      <4> HIDE DEF hash
      <4> QED BY Zenon, <1>4, <1>7, <2>1, <2>3, <3>1 DEF WaitOf
    <3> HIDE DEF hash, wraps
    <3> QED BY <1>1, <1>7, <2>1, <2>2, <3>2, <3>3 DEF WaitOf
  <2> QED BY <2>4, <2>5
<1>9. gens' \in [Clients -> Nat] /\ owed' = [c \in Clients |-> owed'[c]]
  <2>1. \A c \in Clients : (IF wraps /\ gens[c] > 0 THEN gens[c] - 1 ELSE gens[c]) \in Nat
    BY <1>7
  <2> HIDE DEF wraps, hash
  <2> QED BY <1>1, <2>1
<1>10. m_readSet' \subseteq Nat /\ m_readLast' \in Nat
  <2> HIDE DEF hash
  <2> QED BY <1>1, <1>4 DEF WaitInv
<1>11. \A c \in Clients : pc'[c] \in Posting => key'[c] \in Nat
  BY <1>6 DEF WaitInv, Posting
<1> QED BY <1>8, <1>9, <1>10, <1>11 DEF WaitInv

\* Every step keeps it.
LEMMA WaitNext == DbInv /\ WaitInv /\ [Next]_vars => WaitInv'
<1> SUFFICES ASSUME DbInv, WaitInv, [Next]_vars PROVE WaitInv'
  OBVIOUS
<1>0. \A c \in Clients : c \in Threads /\ c \notin Readers
  BY KeysAssumption DEF Threads
<1>1. ASSUME NEW c \in Clients, NEW k, NEW label, Begin(c, label, k),
             label \notin {"check", "waiting"}, label \in Posting => k \in Nat,
             UNCHANGED <<readVars, gens, owed>>
      PROVE WaitInv'
  <2>1. \A b \in Clients \ {c} : pc'[b] = pc[b] /\ key'[b] = key[b]
    BY Zenon, <1>0, <1>1 DEF Begin, Goto, DbInv
  <2>2. pc'[c] = label /\ key'[c] = k
    BY Zenon, <1>0, <1>1 DEF Begin, Goto, DbInv
  <2>3. \A b \in Clients : InWait(b)' => InWait(b)
    BY <1>1, <2>1, <2>2 DEF InWait
  <2>4. \A b \in Clients : pc'[b] \in Posting => key'[b] \in Nat
    BY <1>1, <2>1, <2>2 DEF WaitInv
  <2> QED BY <1>1, <2>3, <2>4, WaitKept DEF readVars, WaitInv
<1>2. ASSUME NEW c \in Clients, NEW k \in Objects, StartFetch(c, k) \/ StartStore(c, k)
      PROVE WaitInv'
  BY <1>1, <1>2 DEF StartFetch, StartStore, Posting, history
<1>3. ASSUME NEW c \in Clients, NEW k \in Posted, StartAsync(c, k) PROVE WaitInv'
  BY <1>1, <1>3, KeysAssumption DEF StartAsync, history
<1>4. ASSUME NEW c \in Clients, Store(c) PROVE WaitInv'
  <2>1. \A b \in Clients \ {c} : pc'[b] = pc[b] /\ key'[b] = key[b]
    BY <1>0, <1>4 DEF Store, Goto, DbInv
  <2>2. pc'[c] \in {"store2", "store3", "idle"}
    BY <1>0, <1>4 DEF Store, Goto, DbInv
  <2> QED BY <1>4, <2>1, <2>2, WaitKept DEF Store, readVars, WaitInv, InWait, Posting
<1>5. ASSUME NEW c \in Clients, AsyncFetch(c) PROVE WaitInv'
  <2> DEFINE p == [pc EXCEPT ![c] = "idle"]
  <2>1. key[c] \in Nat
    BY <1>5 DEF AsyncFetch, WaitInv, Posting
  <2>2. \/ pc' = p \/ pc' \in NotifyOne(p)
        \/ pc' = [pc EXCEPT ![c] = "async2"] \/ pc' = [pc EXCEPT ![c] = "async3"]
    BY <1>5 DEF AsyncFetch, Goto
  <2>3. pc' \in NotifyOne(p) => \/ pc' = p
                                \/ \E r \in Readers : pc' = [p EXCEPT ![r] = "top"]
    BY DEF NotifyOne
  <2>4. \A b \in Clients \ {c} : pc'[b] = pc[b]
    BY <1>0, <2>2, <2>3 DEF DbInv
  <2>5. pc'[c] \in {"idle", "async2", "async3"}
    BY <1>0, <2>2, <2>3 DEF DbInv
  <2>6. key' \in {key, [key EXCEPT ![c] = 0]}
    BY <1>5 DEF AsyncFetch
  <2>7. \A b \in Clients : pc'[b] \in Posting => key'[b] \in Nat
    <3> SUFFICES ASSUME NEW b \in Clients, pc'[b] \in Posting PROVE key'[b] \in Nat
      OBVIOUS
    <3>1. key'[b] \in {key[b], 0} /\ (b # c => key'[b] = key[b])
      BY <1>0, <2>6 DEF DbInv
    <3> QED BY <2>1, <2>4, <3>1 DEF WaitInv
  <2>8. \A b \in Clients : InWait(b)' => InWait(b)
    BY <2>4, <2>5 DEF InWait
  <2>9. m_readSet' \in {m_readSet, m_readSet \cup {key[c]}}
        /\ UNCHANGED <<m_readLast, m_readShut, gens, owed>>
    BY <1>5 DEF AsyncFetch, history
  <2>10. m_readSet \subseteq m_readSet' /\ m_readSet' \subseteq Nat
    BY <2>1, <2>9 DEF WaitInv
  <2> QED BY <2>7, <2>8, <2>9, <2>10, WaitKept
<1>6. ASSUME NEW c \in Clients, StartWait(c) PROVE WaitInv'
  <2>1. /\ gens' = [gens EXCEPT ![c] = 2] /\ owed' = [owed EXCEPT ![c] = m_readSet]
        /\ pc' = [pc EXCEPT ![c] = "check"] /\ key' = [key EXCEPT ![c] = 0]
        /\ ~m_readShut /\ UNCHANGED readVars
    BY <1>6 DEF StartWait, Begin, Goto, WakeGeneration
  <2>2. gens' \in [Clients -> Nat] /\ owed' = [b \in Clients |-> owed'[b]]
    BY <2>1 DEF WaitInv
  <2>3. WaitOf(c)'
    BY <2>1 DEF WaitOf, WaitInv, readVars
  <2>4. ASSUME NEW b \in Clients \ {c}, InWait(b)' PROVE WaitOf(b)'
    <3>1. WaitOf(b)
      BY <2>1, <2>4 DEF InWait, WaitInv
    <3>2. gens'[b] = gens[b] /\ owed'[b] = owed[b]
      BY <2>1 DEF WaitInv
    <3> QED BY <2>1, <3>1, <3>2 DEF WaitOf, readVars
  <2>5. \A b \in Clients : pc'[b] \in Posting => key'[b] \in Nat
    BY <1>0, <2>1 DEF WaitInv, DbInv, Posting
  <2> QED BY <2>1, <2>2, <2>3, <2>4, <2>5 DEF WaitInv, readVars
<1>7. ASSUME NEW c \in Clients, WaitReads(c) PROVE WaitInv'
  <2>1. /\ \/ pc' = [pc EXCEPT ![c] = "waiting"] /\ gens' = gens
           \/ pc' = [pc EXCEPT ![c] = "idle"] /\ gens' = [gens EXCEPT ![c] = 0]
        /\ UNCHANGED <<readVars, key, owed>> /\ pc[c] = "check"
    BY <1>7 DEF WaitReads, Goto, history
  <2>2. gens' \in [Clients -> Nat]
    BY <2>1 DEF WaitInv
  <2>3. \A b \in Clients : pc'[b] \in Posting => pc[b] \in Posting
    BY <1>0, <2>1 DEF Posting, DbInv
  <2>4. ASSUME NEW b \in Clients, InWait(b)' PROVE WaitOf(b)'
    <3>1. InWait(b) /\ gens'[b] = gens[b]
      BY <1>0, <2>1, <2>4 DEF InWait, WaitInv, DbInv
    <3> QED BY <2>1, <3>1 DEF WaitInv, WaitOf, readVars
  <2> QED BY <2>1, <2>2, <2>3, <2>4 DEF WaitInv, readVars
<1>8. ASSUME NEW t \in Threads, DoFetch(t) PROVE WaitInv'
  <2>1. \A b \in Clients \ {t} : pc'[b] = pc[b] /\ key'[b] = key[b]
    BY <1>0, <1>8 DEF DoFetch, FetchCache, FetchNeg, FetchDisk, FetchRecheck, FetchGiveUp,
       FetchKeep, Return, Continue, Goto, DbInv
  <2>2. pc'[t] \in {"top", "idle", "neg", "disk", "keep", "recheck", "giveup"}
    BY <1>8 DEF DoFetch, FetchCache, FetchNeg, FetchDisk, FetchRecheck, FetchGiveUp, FetchKeep,
       Return, Continue, Goto, Rest, DbInv
  <2>3. UNCHANGED <<readVars, gens, owed>>
    BY <1>8 DEF DoFetch
  <2> QED BY <2>1, <2>2, <2>3, WaitKept DEF readVars, WaitInv, InWait, Posting
<1>9. ASSUME NEW r \in Readers, ThreadEntry(r) PROVE WaitInv'
  <2>1. CASE ~m_readShut /\ m_readSet # {}
    BY <1>9, <2>1, ReadKeepsWait
  <2>2. CASE m_readShut \/ m_readSet = {}
    <3>1. /\ UNCHANGED <<readVars, key, gens, owed>>
          /\ \/ pc' = [pc EXCEPT ![r] = "exit"]
             \/ pc' = [NotifyGen(pc) EXCEPT ![r] = "asleep"]
      BY <1>9, <2>2 DEF ThreadEntry, Goto, readVars
    <3>2. \A b \in Clients : pc'[b] = pc[b] \/ (pc[b] = "waiting" /\ pc'[b] = "check")
      BY Zenon, <1>0, <3>1 DEF NotifyGen, DbInv
    <3> QED BY <3>1, <3>2, WaitKept DEF readVars, WaitInv, InWait, Posting
  <2> QED BY <2>1, <2>2
<1>10. CASE Shut
  <2>1. \A c \in Clients : pc'[c] = "idle"
    BY <1>0, <1>10 DEF Shut
  <2> QED BY <1>10, <2>1 DEF Shut, WaitInv, InWait, Posting, history
<1>11. CASE Evict \/ UNCHANGED dbVars
  <2>1. UNCHANGED <<readVars, pc, key, gens, owed>>
    BY <1>11 DEF Evict, dbVars, callVars, history
  <2> QED BY <2>1, WaitKept DEF readVars, WaitInv, InWait
<1>12. CASE UNCHANGED vars
  BY <1>11, <1>12 DEF vars
<1> QED BY <1>2, <1>3, <1>4, <1>5, <1>6, <1>7, <1>8, <1>9, <1>10, <1>11, <1>12 DEF Next, Join

\* Only waitReads itself takes a client out of it.
LEMMA LeavesWait ==
  ASSUME DbInv, [Next]_vars, NEW c \in Clients, pc[c] = "check", pc'[c] = "idle"
  PROVE WaitReads(c)
<1>0. c \in Threads /\ c \notin Readers
  BY KeysAssumption DEF Threads
<1>1. ASSUME NEW b \in Clients, NEW k,
             StartFetch(b, k) \/ StartStore(b, k) \/ StartAsync(b, k) \/ StartWait(b)
      PROVE FALSE
  <2>1. \E label \in {"cache", "store1", "async1", "check"} : \E j : Begin(b, label, j)
    BY <1>1 DEF StartFetch, StartStore, StartAsync, StartWait
  <2> QED BY Zenon, <1>0, <2>1 DEF Begin, Goto, DbInv
<1>2. ASSUME NEW b \in Clients, Store(b) PROVE FALSE
  BY <1>0, <1>2 DEF Store, Goto, DbInv
<1>3. ASSUME NEW b \in Clients, AsyncFetch(b) PROVE FALSE
  <2> DEFINE p == [pc EXCEPT ![b] = "idle"]
  <2>1. \/ pc' = p \/ pc' \in NotifyOne(p)
        \/ pc' = [pc EXCEPT ![b] = "async2"] \/ pc' = [pc EXCEPT ![b] = "async3"]
    BY <1>3 DEF AsyncFetch, Goto
  <2>2. pc' \in NotifyOne(p) => \/ pc' = p
                                \/ \E r \in Readers : pc' = [p EXCEPT ![r] = "top"]
    BY DEF NotifyOne
  <2>3. b # c
    BY <1>3 DEF AsyncFetch
  <2> QED BY <1>0, <2>1, <2>2, <2>3 DEF DbInv
<1>4. ASSUME NEW b \in Clients, WaitReads(b), b # c PROVE FALSE
  BY <1>0, <1>4 DEF WaitReads, Goto, DbInv
<1>5. ASSUME NEW t \in Threads, DoFetch(t) PROVE FALSE
  <2>1. pc[t] # "check" /\ (t # c => pc'[c] = pc[c])
    BY <1>0, <1>5 DEF DoFetch, FetchCache, FetchNeg, FetchDisk, FetchRecheck, FetchGiveUp,
       FetchKeep, Return, Continue, Goto, DbInv
  <2> QED BY <2>1
<1>6. ASSUME NEW r \in Readers, ThreadEntry(r) PROVE FALSE
  <2>1. \/ pc' = [pc EXCEPT ![r] = "exit"] \/ pc' = [NotifyGen(pc) EXCEPT ![r] = "asleep"]
        \/ pc' = [NotifyGen(pc) EXCEPT ![r] = "cache"] \/ pc' = [pc EXCEPT ![r] = "cache"]
    BY Zenon, <1>6 DEF ThreadEntry, Goto
  <2> QED BY Zenon, <1>0, <2>1 DEF NotifyGen, DbInv
<1>7. CASE Shut \/ Evict \/ UNCHANGED dbVars
  BY <1>0, <1>7 DEF Shut, Evict, dbVars, callVars
<1>8. CASE UNCHANGED vars
  BY <1>7, <1>8 DEF vars
<1> QED BY <1>1, <1>2, <1>3, <1>4, <1>5, <1>6, <1>7, <1>8 DEF Next, Join

\* However reads are posted, taken up and waited for at once, a call to waitReads
\* returns only when every read posted before it has been taken up: the wrap that
\* ends the second generation has passed them all.
THEOREM WaitsCoverPosted == Spec => WaitCoversPosted
<1> DEFINE Step == \A c \in Clients : pc[c] = "check" /\ pc'[c] = "idle" => owed[c] = {}
<1>1. ASSUME DbInv, WaitInv, [Next]_vars PROVE [Step]_vars
  <2> SUFFICES ASSUME NEW c \in Clients, pc[c] = "check", pc'[c] = "idle" PROVE owed[c] = {}
    OBVIOUS
  <2>1. WaitReads(c) /\ WaitOf(c) /\ gens[c] \in Nat
    BY <1>1, LeavesWait DEF WaitInv, InWait
  <2>2. m_readSet = {} \/ ~(gens[c] > 0)
    <3>1. c \in Threads
      BY DEF Threads
    <3> QED BY <1>1, <2>1, <3>1 DEF WaitReads, Goto, WaitOf, DbInv
  <2> QED BY <2>1, <2>2 DEF WaitOf
<1> QED BY <1>1, DbInit, DbNext, WaitInit, WaitNext, PTL DEF Spec, WaitCoversPosted

----
(* No read is left lying: what the return of waitReads rests on. *)

\* When every prefetch thread sleeps, no read is posted and nobody waits for one.
ReadsServed ==
  (\A r \in Readers : pc[r] = "asleep") =>
    m_readSet = {} /\ \A c \in Clients : pc[c] # "waiting"

\* A step that posts nothing, lets no client wait and no prefetch thread sleep.
LEMMA ServedKept ==
  ASSUME ReadsServed, m_readSet = {} => m_readSet' = {},
         \A c \in Clients : pc'[c] = "waiting" => pc[c] = "waiting",
         \A r \in Readers : pc'[r] = "asleep" => pc[r] = "asleep"
  PROVE ReadsServed'
  BY Zenon DEF ReadsServed

\* Every step keeps it: who posts a read wakes a thread, and the thread that finds
\* no read wakes the clients before it sleeps.
LEMMA ServedNext == DbInv /\ ReadsServed /\ [Next]_vars => ReadsServed'
<1> SUFFICES ASSUME DbInv, ReadsServed, [Next]_vars PROVE ReadsServed'
  OBVIOUS
<1>0. /\ \A c \in Clients : c \in Threads /\ c \notin Readers
      /\ \A r \in Readers : r \in Threads /\ r \notin Clients
  BY KeysAssumption DEF Threads
<1>a. ASSUME NEW t \in Threads, NEW label, pc' = [pc EXCEPT ![t] = label],
             label \notin {"waiting", "asleep"}, UNCHANGED m_readSet
      PROVE ReadsServed'
  <2>1. \A u \in Threads : pc'[u] = IF u = t THEN label ELSE pc[u]
    BY Zenon, <1>a DEF DbInv
  <2>2. \A c \in Clients : pc'[c] = "waiting" => pc[c] = "waiting"
    BY Zenon, <1>0, <1>a, <2>1
  <2>3. \A r \in Readers : pc'[r] = "asleep" => pc[r] = "asleep"
    BY Zenon, <1>0, <1>a, <2>1
  <2> QED BY <1>a, <2>2, <2>3, ServedKept
<1>1. ASSUME NEW c \in Clients, NEW k,
             StartFetch(c, k) \/ StartStore(c, k) \/ StartAsync(c, k) \/ StartWait(c)
      PROVE ReadsServed'
  <2>1. /\ UNCHANGED m_readSet
        /\ \E label \in {"cache", "store1", "async1", "check"} : pc' = [pc EXCEPT ![c] = label]
    BY <1>1 DEF StartFetch, StartStore, StartAsync, StartWait, Begin, Goto, readVars
  <2> QED BY Zenon, <1>0, <1>a, <2>1
<1>2. ASSUME NEW c \in Clients, Store(c) PROVE ReadsServed'
  <2>1. /\ UNCHANGED m_readSet
        /\ \E label \in {"store2", "store3", "idle"} : pc' = [pc EXCEPT ![c] = label]
    BY <1>2 DEF Store, Goto, readVars
  <2> QED BY Zenon, <1>0, <1>a, <2>1
<1>3. ASSUME NEW c \in Clients, AsyncFetch(c) PROVE ReadsServed'
  <2> DEFINE p == [pc EXCEPT ![c] = "idle"]
  <2>1. CASE pc[c] # "async3"
    <3>1. /\ UNCHANGED m_readSet
          /\ \E label \in {"idle", "async2", "async3"} : pc' = [pc EXCEPT ![c] = label]
      BY <1>3, <2>1 DEF AsyncFetch, Goto
    <3> QED BY Zenon, <1>0, <1>a, <3>1
  <2>2. CASE pc[c] = "async3"
    <3>1. /\ m_readSet' = m_readSet \cup {key[c]}
          /\ IF key[c] \in m_readSet THEN pc' = p ELSE pc' \in NotifyOne(p)
      BY <1>3, <2>2 DEF AsyncFetch
    <3>2. \A r \in Readers : p[r] = pc[r]
      BY Zenon, <1>0 DEF DbInv
    <3>3. CASE key[c] \in m_readSet
      <4>1. pc' = p /\ m_readSet' = m_readSet
        BY <3>1, <3>3
      <4> QED BY Zenon, <1>0, <1>a, <4>1
    <3>4. CASE key[c] \notin m_readSet
      <4> HIDE DEF p
      <4>1. \/ pc' = p /\ \A r \in Readers : p[r] # "asleep"
            \/ \E r \in Readers : p[r] = "asleep" /\ pc' = [p EXCEPT ![r] = "top"]
        BY Zenon, <3>1, <3>4 DEF NotifyOne
      <4>2. DOMAIN p = Threads
        BY DEF DbInv, p
      <4>3. \E r \in Readers : pc'[r] # "asleep"
        BY Zenon, <1>0, <4>1, <4>2, ReadersAssumption
      <4> QED BY <4>3 DEF ReadsServed
    <3> QED BY <3>3, <3>4
  <2> QED BY <2>1, <2>2
<1>4. ASSUME NEW c \in Clients, WaitReads(c) PROVE ReadsServed'
  <2>1. CASE pc' = [pc EXCEPT ![c] = "idle"]
    <3>1. UNCHANGED m_readSet
      BY <1>4 DEF WaitReads, readVars
    <3> QED BY Zenon, <1>0, <1>a, <2>1, <3>1
  <2>2. CASE pc' = [pc EXCEPT ![c] = "waiting"] /\ m_readSet # {}
    <3>1. \A r \in Readers : pc'[r] = pc[r]
      BY Zenon, <1>0, <2>2 DEF DbInv
    <3> QED BY <2>2, <3>1 DEF ReadsServed
  <2> QED BY <1>4, <2>1, <2>2 DEF WaitReads, Goto
<1>5. ASSUME NEW t \in Threads, DoFetch(t) PROVE ReadsServed'
  <2>1. /\ UNCHANGED m_readSet
        /\ \E label \in {"top", "idle", "neg", "disk", "keep", "recheck", "giveup"} :
             pc' = [pc EXCEPT ![t] = label]
    BY <1>5 DEF DoFetch, FetchCache, FetchNeg, FetchDisk, FetchRecheck, FetchGiveUp, FetchKeep,
       Return, Continue, Goto, Rest, readVars
  <2> QED BY Zenon, <1>a, <2>1
<1>6. ASSUME NEW r \in Readers, ThreadEntry(r) PROVE ReadsServed'
  <2>1. \/ pc' = [pc EXCEPT ![r] = "exit"] \/ pc' = [pc EXCEPT ![r] = "cache"]
        \/ pc' = [NotifyGen(pc) EXCEPT ![r] = "cache"]
        \/ pc' = [NotifyGen(pc) EXCEPT ![r] = "asleep"] /\ m_readSet = {} /\ m_readSet' = {}
    BY Zenon, <1>6 DEF ThreadEntry, Goto
  <2>2. CASE pc' = [NotifyGen(pc) EXCEPT ![r] = "asleep"] /\ m_readSet' = {}
    <3>1. \A c \in Clients : pc'[c] # "waiting"
      BY Zenon, <1>0, <2>2 DEF NotifyGen
    <3> QED BY <2>2, <3>1 DEF ReadsServed
  <2>3. CASE \/ pc' = [pc EXCEPT ![r] = "exit"] \/ pc' = [pc EXCEPT ![r] = "cache"]
             \/ pc' = [NotifyGen(pc) EXCEPT ![r] = "cache"]
    <3>1. pc'[r] \in {"exit", "cache"}
      BY Zenon, <1>0, <2>3 DEF NotifyGen, DbInv
    <3> QED BY <3>1 DEF ReadsServed
  <2> QED BY <2>1, <2>2, <2>3
<1>7. CASE Shut
  <2>1. \A u \in Threads : pc'[u] # "asleep" /\ (pc'[u] = "waiting" => pc[u] = "waiting")
    BY <1>7 DEF Shut
  <2> QED BY <1>0, <2>1, ReadersAssumption DEF ReadsServed
<1>8. CASE Evict \/ UNCHANGED dbVars
  BY <1>8 DEF Evict, dbVars, callVars, readVars, ReadsServed
<1>9. CASE UNCHANGED vars
  BY <1>8, <1>9 DEF vars
<1> QED BY <1>1, <1>2, <1>3, <1>4, <1>5, <1>6, <1>7, <1>8, <1>9 DEF Next, Join

\* No wake-up of asyncFetch and of the generations is lost: prefetch threads that
\* all sleep leave no read behind and no client in waitReads.
THEOREM ReadsAreServed == Spec => []ReadsServed
<1>1. Init => ReadsServed
  BY KeysAssumption DEF Init, ReadsServed, Threads
<1> QED BY <1>1, DbInit, DbNext, ServedNext, PTL DEF Spec

----
(* The writer of stale validations. *)

\* The flag says exactly whether there is a job; without a job nothing waits to be
\* written, and only a job at the write holds a batch.
StaleInv ==
  /\ staleWriter \in {"none", "queued", "loop", "write"}
  /\ mWriting \in BOOLEAN /\ (mWriting <=> staleWriter # "none")
  /\ staleWriter = "none" => mStaleValidations = {}
  /\ staleWriter # "write" => vector = {}

\* What flush waits for is written or still to be written.
FlushInv ==
  /\ flusher \in {"none", "polling", "done"}
  /\ flushed \subseteq UnwrittenStale \cup db
  /\ flusher # "polling" => flushed = {}

\* The current validation of a validator is one of its own that was received.
CurrentInv ==
  /\ mValidations \subseteq AllValidations
  /\ mCurrentValidations = [n \in Nodes |-> mCurrentValidations[n]]
  /\ \A n \in Nodes : mCurrentValidations[n] # None =>
       mCurrentValidations[n] \in mValidations /\ mCurrentValidations[n].node = n

\* A validation received is outdated, current, stale, in the batch or in the
\* database, and only one of these.
PlaceInv ==
  /\ mValidations = outdated \cup Current(Nodes) \cup mStaleValidations \cup vector \cup db
  /\ outdated \cap (Current(Nodes) \cup mStaleValidations \cup vector \cup db) = {}
  /\ Current(Nodes) \cap (mStaleValidations \cup vector \cup db) = {}
  /\ mStaleValidations \cap (vector \cup db) = {}
  /\ vector \cap db = {}

Inv == StaleInv /\ FlushInv /\ CurrentInv /\ PlaceInv

\* A new validation takes the place of the one it replaces, which no other
\* validator holds; one that is not newer leaves the map as it is.
LEMMA RecordCurrent ==
  ASSUME CurrentInv, NEW v \in AllValidations, Record(v)
  PROVE  /\ CurrentInv' /\ v \notin mValidations /\ Replaced(v) \subseteq Current(Nodes)
         /\ Newer(v) => Current(Nodes)' = (Current(Nodes) \ Replaced(v)) \cup {v}
         /\ ~Newer(v) => Current(Nodes)' = Current(Nodes) /\ Replaced(v) = {}
<1> DEFINE n == v.node
           w == mCurrentValidations[n]
<1>1. n \in Nodes /\ v # None
  BY ValidationsAssumption
<1>2. v \notin mValidations
  BY DEF Record, Known
<1>3. CASE ~Newer(v)
  <2>1. mCurrentValidations' = mCurrentValidations /\ mValidations' = mValidations \cup {v}
    BY <1>3 DEF Record
  <2>2. CurrentInv'
    BY <2>1 DEF CurrentInv
  <2> QED BY <1>2, <1>3, <2>1, <2>2 DEF Current, Replaced
<1>4. CASE Newer(v)
  <2>1. /\ mCurrentValidations' = [mCurrentValidations EXCEPT ![n] = v]
        /\ mValidations' = mValidations \cup {v} /\ Replaced(v) = {w} \ {None}
    BY <1>4 DEF Record, Replaced
  <2>2. /\ mCurrentValidations' = [m \in Nodes |-> mCurrentValidations'[m]]
        /\ mCurrentValidations'[n] = v
        /\ \A m \in Nodes \ {n} : mCurrentValidations'[m] = mCurrentValidations[m]
    BY <1>1, <2>1 DEF CurrentInv
  <2>3. CurrentInv'
    BY <2>1, <2>2 DEF CurrentInv
  <2>4. \A m \in Nodes \ {n} : mCurrentValidations[m] # None => mCurrentValidations[m] # w
    BY <1>1 DEF CurrentInv
  <2>5. Replaced(v) \subseteq Current(Nodes)
    BY <1>1, <2>1 DEF Current
  <2>6. Current(Nodes)' = (Current(Nodes) \ Replaced(v)) \cup {v}
    <3>1. \A x : x \in Current(Nodes)' <=>
                   x # None /\ \E m \in Nodes : x = mCurrentValidations'[m]
      BY DEF Current
    <3>2. \A x : x \in Current(Nodes) <=>
                   x # None /\ \E m \in Nodes : x = mCurrentValidations[m]
      BY DEF Current
    <3>3. ASSUME NEW x \in Current(Nodes)' PROVE x \in (Current(Nodes) \ Replaced(v)) \cup {v}
      BY <2>1, <2>2, <2>4, <3>1, <3>2
    <3>4. ASSUME NEW x \in Current(Nodes) \ Replaced(v) PROVE x \in Current(Nodes)'
      BY <2>1, <2>2, <3>1, <3>2
    <3>5. v \in Current(Nodes)'
      BY <1>1, <2>2, <3>1
    <3> QED BY <3>3, <3>4, <3>5
  <2> QED BY <1>2, <1>4, <2>3, <2>5, <2>6
<1> QED BY <1>3, <1>4

\* Clearing the entries of some validators takes their validations out, and only
\* these.
LEMMA ClearCurrent ==
  ASSUME CurrentInv, NEW S \in SUBSET Nodes, UNCHANGED mValidations,
         mCurrentValidations' = [n \in Nodes |-> IF n \in S THEN None ELSE mCurrentValidations[n]]
  PROVE  /\ CurrentInv' /\ Current(S) \subseteq Current(Nodes)
         /\ Current(Nodes)' = Current(Nodes) \ Current(S)
<1>1. \A n \in Nodes : mCurrentValidations'[n] = IF n \in S THEN None ELSE mCurrentValidations[n]
  OBVIOUS
<1>2. CurrentInv'
  BY <1>1 DEF CurrentInv
<1>3. \A x : x \in Current(Nodes)' <=> x # None /\ \E m \in Nodes : x = mCurrentValidations'[m]
  BY DEF Current
<1>4. \A x : x \in Current(Nodes) <=> x # None /\ \E m \in Nodes : x = mCurrentValidations[m]
  BY DEF Current
<1>5. \A x : x \in Current(S) <=> x # None /\ \E m \in S : x = mCurrentValidations[m]
  BY DEF Current
<1>6. \A m, n \in Nodes : mCurrentValidations[m] # None
                          /\ mCurrentValidations[m] = mCurrentValidations[n] => m = n
  BY DEF CurrentInv
<1>7. \A x : x \in Current(Nodes)' => x \in Current(Nodes) \ Current(S)
  BY <1>1, <1>3, <1>4, <1>5, <1>6
<1>8. \A x : x \in Current(Nodes) \ Current(S) => x \in Current(Nodes)'
  BY <1>1, <1>3, <1>4, <1>5
<1> QED BY <1>2, <1>4, <1>5, <1>7, <1>8

\* Nothing has been received.
LEMMA InvInit == ValidationsInit => Inv /\ StaleWB!Init
<1> SUFFICES ASSUME ValidationsInit PROVE Inv /\ StaleWB!Init
  OBVIOUS
<1>1. Current(Nodes) = {}
  BY DEF ValidationsInit, SetsInit, Current
<1>2. CurrentInv
  BY DEF ValidationsInit, SetsInit, CurrentInv
<1>3. StaleWB!Init
  BY DEF ValidationsInit, StaleWB!Init, UnwrittenStale
<1> QED BY Zenon, <1>1, <1>2, <1>3
     DEF ValidationsInit, SetsInit, Inv, StaleInv, FlushInv, PlaceInv, UnwrittenStale

\* Pushing to mStaleValidations makes sure that there is a job.
LEMMA PushKeepsWriter ==
  ASSUME StaleInv, NEW S, PushStale(S), UNCHANGED vector
  PROVE  StaleInv' /\ mStaleValidations' = mStaleValidations \cup S
  BY DEF StaleInv, PushStale

\* Every step keeps the invariant, and is a step of the write-behind queue or none.
LEMMA InvNext == Inv /\ [ValidationsNext]_validationVars => Inv' /\ [StaleWB!Next]_(StaleWB!vars)
<1> SUFFICES ASSUME Inv, [ValidationsNext]_validationVars
             PROVE  Inv' /\ [StaleWB!Next]_(StaleWB!vars)
  OBVIOUS
<1> USE DEF Inv
<1>1. ASSUME NEW S \in SUBSET AllValidations, UnwrittenStale' = UnwrittenStale \cup S,
             UNCHANGED <<db, flusher, flushed>>
      PROVE  FlushInv' /\ StaleWB!Accept(S) /\ StaleWB!Next
  <2>1. StaleWB!Accept(S)
    BY <1>1 DEF StaleWB!Accept
  <2> QED BY <1>1, <2>1 DEF FlushInv, StaleWB!Next
<1>2. ASSUME NEW v \in AllValidations, AddValidation(v) PROVE Inv' /\ StaleWB!Next
  <2>1. /\ CurrentInv' /\ v \notin mValidations /\ Replaced(v) \subseteq Current(Nodes)
        /\ Newer(v) => Current(Nodes)' = (Current(Nodes) \ Replaced(v)) \cup {v}
        /\ ~Newer(v) => Current(Nodes)' = Current(Nodes) /\ Replaced(v) = {}
        /\ mValidations' = mValidations \cup {v}
    BY <1>2, RecordCurrent DEF AddValidation, Record
  <2>2. /\ outdated' = IF Newer(v) THEN outdated ELSE outdated \cup {v}
        /\ UNCHANGED <<vector, db, flusher, flushed>>
    BY <1>2 DEF AddValidation
  <2>3. StaleInv' /\ mStaleValidations' = mStaleValidations \cup Replaced(v)
    <3>1. CASE Replaced(v) # {}
      BY <1>2, <3>1, PushKeepsWriter DEF AddValidation
    <3>2. CASE Replaced(v) = {}
      BY <1>2, <3>2 DEF AddValidation, StaleInv
    <3> QED BY <3>1, <3>2
  <2>4. Replaced(v) \in SUBSET AllValidations /\ UnwrittenStale' = UnwrittenStale \cup Replaced(v)
    BY <2>1, <2>2, <2>3 DEF UnwrittenStale, CurrentInv, PlaceInv
  <2>5. FlushInv' /\ StaleWB!Next
    BY <1>1, <2>2, <2>4
  <2>6. PlaceInv'
    <3>1. CASE Newer(v)
      BY <2>1, <2>2, <2>3, <3>1 DEF PlaceInv
    <3>2. CASE ~Newer(v)
      BY <2>1, <2>2, <2>3, <3>2 DEF PlaceInv
    <3> QED BY <3>1, <3>2
  <2> QED BY <2>1, <2>3, <2>5, <2>6
<1>3. ASSUME NEW S \in SUBSET Nodes, Expire(S) PROVE Inv' /\ StaleWB!Next
  <2>1. /\ CurrentInv' /\ Current(S) \subseteq Current(Nodes)
        /\ Current(Nodes)' = Current(Nodes) \ Current(S)
    BY <1>3, ClearCurrent DEF Expire
  <2>2. StaleInv' /\ mStaleValidations' = mStaleValidations \cup Current(S)
    BY <1>3, PushKeepsWriter DEF Expire
  <2>3. UNCHANGED <<mValidations, vector, db, flusher, outdated, flushed>>
    BY <1>3 DEF Expire
  <2>4. Current(S) \in SUBSET AllValidations /\ UnwrittenStale' = UnwrittenStale \cup Current(S)
    BY <2>1, <2>2, <2>3 DEF UnwrittenStale, CurrentInv, PlaceInv
  <2>5. FlushInv' /\ StaleWB!Next
    BY <1>1, <2>3, <2>4
  <2>6. PlaceInv'
    BY <2>1, <2>2, <2>3 DEF PlaceInv
  <2> QED BY <2>1, <2>2, <2>5, <2>6
<1>4. CASE StartWrite \/ SwapStale
  <2>1. UNCHANGED <<setVars, db, flusher, outdated, flushed>>
    BY <1>4 DEF StartWrite, SwapStale
  <2>2. StaleInv' /\ \/ UNCHANGED <<mStaleValidations, vector>>
                     \/ vector = {} /\ vector' = mStaleValidations /\ mStaleValidations' = {}
    BY Zenon, <1>4 DEF StartWrite, SwapStale, NothingStale, StaleInv
  <2>3. UnwrittenStale' = UnwrittenStale
    BY <2>2 DEF UnwrittenStale
  <2>4. Current(Nodes)' = Current(Nodes) /\ CurrentInv' /\ FlushInv'
    BY <2>1, <2>3 DEF Current, setVars, CurrentInv, FlushInv
  <2>5. PlaceInv'
    BY <2>1, <2>2, <2>4 DEF PlaceInv, setVars
  <2> QED BY <2>1, <2>2, <2>3, <2>4, <2>5 DEF StaleWB!vars
<1>5. CASE WriteStale
  <2>1. /\ UNCHANGED <<setVars, mStaleValidations, flusher, outdated, flushed>>
        /\ db' = db \cup vector /\ vector' = {}
    BY <1>5 DEF WriteStale
  <2>2. StaleInv'
    BY <1>5 DEF WriteStale, StaleInv
  <2>3. UnwrittenStale' \cup db' = UnwrittenStale \cup db
    BY <2>1 DEF UnwrittenStale
  <2>4. Current(Nodes)' = Current(Nodes) /\ CurrentInv' /\ FlushInv'
    BY <2>1, <2>3 DEF Current, setVars, CurrentInv, FlushInv
  <2>5. PlaceInv'
    BY <2>1, <2>4 DEF PlaceInv, setVars
  <2>6. vector \in SUBSET AllValidations
    BY DEF PlaceInv, CurrentInv
  <2>7. StaleWB!Save(vector)
    BY <2>1, <2>3 DEF StaleWB!Save, UnwrittenStale
  <2> QED BY <2>2, <2>4, <2>5, <2>6, <2>7 DEF StaleWB!Next
<1>6. CASE Flush
  <2>1. /\ mCurrentValidations' =
             [n \in Nodes |-> IF n \in Nodes THEN None ELSE mCurrentValidations[n]]
        /\ flusher = "none" /\ flusher' = "polling"
        /\ flushed' = UnwrittenStale \cup db \cup Current(Nodes)
        /\ UNCHANGED <<mValidations, vector, db, outdated>>
    BY <1>6 DEF Flush
  <2>2. CurrentInv' /\ Current(Nodes)' = Current(Nodes) \ Current(Nodes)
    BY <2>1, ClearCurrent
  <2>3. StaleInv' /\ mStaleValidations' = mStaleValidations \cup Current(Nodes)
    <3>1. CASE Current(Nodes) # {}
      BY <1>6, <3>1, PushKeepsWriter DEF Flush
    <3>2. CASE Current(Nodes) = {}
      BY <1>6, <3>2 DEF Flush, StaleInv
    <3> QED BY <3>1, <3>2
  <2>4. /\ Current(Nodes) \in SUBSET AllValidations
        /\ UnwrittenStale' = UnwrittenStale \cup Current(Nodes)
    BY <2>1, <2>3 DEF UnwrittenStale, CurrentInv, PlaceInv
  <2>5. FlushInv'
    BY <2>1, <2>4 DEF FlushInv
  <2>6. PlaceInv'
    BY <2>1, <2>2, <2>3 DEF PlaceInv
  <2>7. StaleWB!BeginWait(Current(Nodes))
    BY <2>1, <2>4 DEF StaleWB!BeginWait
  <2> QED BY <2>2, <2>3, <2>4, <2>5, <2>6, <2>7 DEF StaleWB!Next
<1>7. CASE Poll
  <2>1. /\ flusher = "polling" /\ flusher' = "done" /\ flushed' = {} /\ ~mWriting
        /\ UNCHANGED <<setVars, mStaleValidations, mWriting, staleWriter, vector, db, outdated>>
    BY <1>7 DEF Poll
  <2>2. UnwrittenStale = {} /\ UnwrittenStale' = UnwrittenStale
    BY <2>1 DEF UnwrittenStale, StaleInv
  <2>3. StaleInv' /\ FlushInv' /\ CurrentInv' /\ Current(Nodes)' = Current(Nodes)
    BY <2>1, <2>2 DEF StaleInv, FlushInv, CurrentInv, Current, setVars
  <2>4. PlaceInv'
    BY <2>1, <2>3 DEF PlaceInv, setVars
  <2>5. StaleWB!EndWait
    BY <2>1, <2>2 DEF StaleWB!EndWait, FlushInv
  <2> QED BY <2>3, <2>4, <2>5 DEF StaleWB!Next
<1>8. CASE UNCHANGED validationVars
  <2>1. UNCHANGED <<mValidations, mCurrentValidations, mStaleValidations, mWriting, staleWriter,
                    vector, db, flusher, outdated, flushed>>
    BY <1>8 DEF validationVars, setVars
  <2>2. Current(Nodes)' = Current(Nodes) /\ UnwrittenStale' = UnwrittenStale
    BY <2>1 DEF Current, UnwrittenStale
  <2>3. StaleInv' /\ FlushInv' /\ CurrentInv'
    BY <2>1, <2>2 DEF StaleInv, FlushInv, CurrentInv
  <2>4. PlaceInv'
    BY <2>1, <2>2 DEF PlaceInv
  <2> QED BY <2>1, <2>2, <2>3, <2>4 DEF StaleWB!vars
<1> QED BY <1>2, <1>3, <1>4, <1>5, <1>6, <1>7, <1>8 DEF ValidationsNext, DoWrite

\* In exactly one place.
LEMMA InvAccounts == Inv => Accounted
<1> SUFFICES ASSUME Inv PROVE Accounted
  OBVIOUS
<1> DEFINE all == <<Current(Nodes), mStaleValidations, vector, db>>
           in(v) == {i \in 1 .. 4 : v \in all[i]}
<1> SUFFICES ASSUME NEW v \in mValidations
             PROVE  Cardinality(in(v)) = IF v \in outdated THEN 0 ELSE 1
  BY DEF Accounted
<1>1. /\ in(v) \subseteq {1, 2, 3, 4}
      /\ 1 \in in(v) <=> v \in Current(Nodes)
      /\ 2 \in in(v) <=> v \in mStaleValidations
      /\ 3 \in in(v) <=> v \in vector
      /\ 4 \in in(v) <=> v \in db
  <2>1. 1 .. 4 = {1, 2, 3, 4}
    OBVIOUS
  <2>2. /\ all[1] = Current(Nodes) /\ all[2] = mStaleValidations
        /\ all[3] = vector /\ all[4] = db
    OBVIOUS
  <2> HIDE DEF all
  <2> QED BY <2>1, <2>2
<1> HIDE DEF in
<1>2. CASE v \in outdated
  <2>1. in(v) = {}
    BY <1>1, <1>2 DEF Inv, PlaceInv
  <2> QED BY <1>2, <2>1, FS_EmptySet
<1>3. CASE v \notin outdated
  <2>1. \E i : in(v) = {i}
    <3>1. /\ v \in Current(Nodes) => v \notin mStaleValidations \cup vector \cup db
          /\ v \in mStaleValidations => v \notin vector \cup db
          /\ v \in vector => v \notin db
          /\ v \in Current(Nodes) \cup mStaleValidations \cup vector \cup db
      BY <1>3 DEF Inv, PlaceInv
    <3>2. ASSUME v \in Current(Nodes) PROVE in(v) = {1}
      BY <1>1, <3>1, <3>2
    <3>3. ASSUME v \in mStaleValidations PROVE in(v) = {2}
      BY <1>1, <3>1, <3>3
    <3>4. ASSUME v \in vector PROVE in(v) = {3}
      BY <1>1, <3>1, <3>4
    <3>5. ASSUME v \in db PROVE in(v) = {4}
      BY <1>1, <3>1, <3>5
    <3> QED BY Zenon, <3>1, <3>2, <3>3, <3>4, <3>5
  <2> QED BY <1>3, <2>1, FS_Singleton
<1> QED BY <1>2, <1>3

\* However validations arrive, replace each other and expire, and the job and flush
\* run: every validation received is current, stale, in the batch or in the
\* database, in exactly one of these, unless it came late, and then in none.
THEOREM ValidationsAccounted == ValidationsSpec => []Accounted
<1>1. Inv /\ [ValidationsNext]_validationVars => Inv'
  BY InvNext
<1> QED BY <1>1, InvInit, InvAccounts, PTL DEF ValidationsSpec

\* The writer of stale validations implements the write-behind queue: nothing that
\* was pushed out is dropped, and flush returns only when all of it is written.
THEOREM ValidationsImplement == ValidationsSpec => StaleWB!Spec
<1>1. ValidationsInit => Inv /\ StaleWB!Init
  BY InvInit
<1>2. Inv /\ [ValidationsNext]_validationVars => Inv' /\ [StaleWB!Next]_(StaleWB!vars)
  BY InvNext
<1> QED BY <1>1, <1>2, PTL DEF ValidationsSpec, StaleWB!Spec
====

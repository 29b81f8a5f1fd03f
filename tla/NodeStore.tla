---- MODULE NodeStore ----
(***************************************************************************)
(* NodeStore::DatabaseImp (ripple_core/nodestore/impl/DatabaseImp.h) over  *)
(* the BatchWriter of its persistent backend: clients that store, fetch,   *)
(* post reads and wait for them, the prefetch threads, the positive and    *)
(* the negative cache (the build defines ENABLEBACKENDCACHE), and the      *)
(* destructor.  A step is one locked region or one call to the backend.    *)
(* No ephemeral (fast) backend is configured.                              *)
(***************************************************************************)
EXTENDS BatchWriter, FiniteSetsExt

CONSTANTS
  Clients,       \* threads that call the database
  Readers,       \* prefetch threads
  Posted,        \* the hashes clients post reads for; others are not in the store
  MaxCalls,      \* bound: how many calls the clients make
  MaxEvictions   \* bound: how often a cache drops an entry

ASSUME KeysAssumption ==
  Posted \cup Objects \subseteq Nat \ {0} /\ Clients \cap Readers = {}

\* The main database, the one that asyncFetch is called on, has four read threads.
ASSUME ReadersAssumption == Readers # {}

VARIABLES
  m_cache, m_negCache,
  m_readSet, m_readLast, m_readShut,
  pc, key,       \* of every thread: where it is, and the hash it works on
  gens,          \* of a client in waitReads: generations still to complete
  owed,          \* history: reads posted before that call and not taken up since
  returned,      \* history: hashes whose store() has returned
  late,          \* history: threads whose fetch began after that return
  missed,        \* history: hashes that such a fetch did not find
  evicted,       \* history: hashes the positive cache dropped
  calls, evictions   \* how many calls and evictions there have been

cacheVars == <<m_cache, m_negCache>>
readVars == <<m_readSet, m_readLast, m_readShut>>
history == <<returned, late, missed, owed>>
evictVars == <<evicted, evictions>>
callVars == <<pc, key, calls>>
dbVars == <<cacheVars, readVars, callVars, gens, history, evictVars>>
vars == <<batchVars, dbVars>>

Threads == Clients \cup Readers

\* Reads may have been served, and their results dropped, before we look.
Init ==
  /\ BatchInit
  /\ m_cache = {} /\ m_negCache = {}
  /\ m_readSet = {} /\ m_readLast \in Posted \cup {0} /\ m_readShut = FALSE
  /\ pc = [t \in Threads |-> IF t \in Readers THEN "top" ELSE "idle"]
  /\ key = [t \in Threads |-> 0]
  /\ gens = [c \in Clients |-> 0]
  /\ returned = {} /\ late = {} /\ missed = {} /\ owed = [c \in Clients |-> {}]
  /\ evicted = {} /\ evictions = 0 /\ calls = 0

Goto(t, label) == pc' = [pc EXCEPT ![t] = label]

\* A client enters a call; nobody calls a database that is being destroyed.
Begin(c, label, k) ==
  /\ pc[c] = "idle" /\ ~m_readShut
  /\ calls < MaxCalls /\ calls' = calls + 1
  /\ Goto(c, label) /\ key' = [key EXCEPT ![c] = k]

\* Mutant: the object does not enter the positive cache.
CanonicalizeNothing(k) == m_cache

\* m_cache.canonicalize; what the size limit drops is an eviction
Canonicalize(k) == m_cache \cup {k}

----
(* Fetching: doFetch, of a client or of a prefetch thread. *)

Rest(t) == IF t \in Readers THEN "top" ELSE "idle"

\* A fetch returns, with the object or with nullptr.
Return(t, found) ==
  /\ Goto(t, Rest(t)) /\ key' = [key EXCEPT ![t] = 0]
  /\ missed' = IF ~found /\ t \in late THEN missed \cup {key[t]} ELSE missed
  /\ late' = late \ {t}

Continue(t, label) == Goto(t, label) /\ UNCHANGED <<key, missed, late>>

\* "See if the object already exists in the cache"
FetchCache(t) ==
  /\ pc[t] = "cache"
  /\ IF key[t] \in m_cache THEN Return(t, TRUE) ELSE Continue(t, "neg")
  /\ UNCHANGED cacheVars

FetchNeg(t) ==
  /\ pc[t] = "neg"
  /\ IF key[t] \in m_negCache THEN Return(t, FALSE) ELSE Continue(t, "disk")
  /\ UNCHANGED cacheVars

\* fetchInternal on the persistent backend
FetchDisk(t) ==
  /\ pc[t] = "disk"
  /\ Continue(t, IF key[t] \in disk THEN "keep" ELSE "recheck")
  /\ UNCHANGED cacheVars

\* "Just in case a write occurred"
FetchRecheck(t) ==
  /\ pc[t] = "recheck"
  /\ IF key[t] \in m_cache THEN Return(t, TRUE) ELSE Continue(t, "giveup")
  /\ UNCHANGED cacheVars

\* "We give up"
FetchGiveUp(t) ==
  /\ pc[t] = "giveup"
  /\ m_negCache' = m_negCache \cup {key[t]}
  /\ Return(t, FALSE)
  /\ UNCHANGED m_cache

\* m_cache.canonicalize of what the backend returned
FetchKeep(t) ==
  /\ pc[t] = "keep"
  /\ m_cache' = Canonicalize(key[t])
  /\ Return(t, TRUE)
  /\ UNCHANGED m_negCache

DoFetch(t) ==
  /\ \/ FetchCache(t) \/ FetchNeg(t) \/ FetchDisk(t)
     \/ FetchRecheck(t) \/ FetchGiveUp(t) \/ FetchKeep(t)
  /\ UNCHANGED <<batchVars, readVars, calls, gens, returned, owed, evictVars>>

StartFetch(c, k) ==
  /\ Begin(c, "cache", k)
  /\ late' = IF k \in returned THEN late \cup {c} ELSE late
  /\ UNCHANGED <<batchVars, cacheVars, readVars, gens, returned, missed, owed, evictVars>>

----
(* Storing. *)

StartStore(c, k) ==
  /\ Begin(c, "store1", k)
  /\ UNCHANGED <<batchVars, cacheVars, readVars, gens, history, evictVars>>

\* The three steps of store: the cache, the backend's batch, the negative cache.
Store(c) ==
  /\ \/ /\ pc[c] = "store1" /\ Goto(c, "store2")
        /\ m_cache' = Canonicalize(key[c])
        /\ UNCHANGED <<batchVars, m_negCache, returned, key>>
     \/ /\ pc[c] = "store2" /\ Goto(c, "store3")
        /\ BatchStore(key[c])
        /\ UNCHANGED <<cacheVars, returned, key>>
     \/ /\ pc[c] = "store3" /\ Goto(c, "idle")
        /\ m_negCache' = m_negCache \ {key[c]}
        /\ returned' = returned \cup {key[c]} /\ key' = [key EXCEPT ![c] = 0]
        /\ UNCHANGED <<batchVars, m_cache>>
  /\ UNCHANGED <<readVars, calls, gens, late, missed, owed, evictVars>>

\* sweep, or the size limit in canonicalize: either cache drops an entry.
Evict ==
  /\ evictions < MaxEvictions /\ ~m_readShut
  /\ evictions' = evictions + 1
  /\ \/ \E k \in m_cache : /\ m_cache' = m_cache \ {k} /\ evicted' = evicted \cup {k}
                           /\ UNCHANGED m_negCache
     \/ \E k \in m_negCache : m_negCache' = m_negCache \ {k} /\ UNCHANGED <<m_cache, evicted>>
  /\ UNCHANGED <<batchVars, readVars, callVars, gens, history>>

----
(* Prefetching. *)

\* m_readCondVar.notify_one: one sleeping prefetch thread, if there is one, wakes.
NotifyOne(p) ==
  LET sleeping == {r \in Readers : p[r] = "asleep"}
  IN IF sleeping = {} THEN {p} ELSE {[p EXCEPT ![r] = "top"] : r \in sleeping}

\* Mutant: the clients in waitReads are not woken.
NotifyGenNone(p) == p

\* m_readGenCondVar.notify_all: every client in waitReads looks again.
NotifyGen(p) == [t \in Threads |-> IF p[t] = "waiting" THEN "check" ELSE p[t]]

StartAsync(c, k) ==
  /\ Begin(c, "async1", k)
  /\ UNCHANGED <<batchVars, cacheVars, readVars, gens, history, evictVars>>

\* asyncFetch: both caches, then post the read.
AsyncFetch(c) ==
  /\ \/ /\ pc[c] = "async1"
        /\ Goto(c, IF key[c] \in m_cache THEN "idle" ELSE "async2")
        /\ UNCHANGED m_readSet
     \/ /\ pc[c] = "async2"
        /\ Goto(c, IF key[c] \in m_negCache THEN "idle" ELSE "async3")
        /\ UNCHANGED m_readSet
     \/ /\ pc[c] = "async3"
        /\ m_readSet' = m_readSet \cup {key[c]}
        /\ LET p == [pc EXCEPT ![c] = "idle"]
           IN pc' \in IF key[c] \in m_readSet THEN {p} ELSE NotifyOne(p)
  /\ key' = IF pc'[c] = "idle" THEN [key EXCEPT ![c] = 0] ELSE key
  /\ UNCHANGED <<batchVars, cacheVars, m_readLast, m_readShut, calls, gens, history, evictVars>>

\* Mutant: waitReads wakes one generation from now.
WakeInOne == 1

\* "Wake in two generations"
WakeGeneration == 2

StartWait(c) ==
  /\ Begin(c, "check", 0)
  /\ gens' = [gens EXCEPT ![c] = WakeGeneration]
  /\ owed' = [owed EXCEPT ![c] = m_readSet]
  /\ UNCHANGED <<batchVars, cacheVars, readVars, returned, late, missed, evictVars>>

WaitReads(c) ==
  /\ pc[c] = "check"
  /\ IF ~m_readShut /\ m_readSet # {} /\ gens[c] > 0
     THEN Goto(c, "waiting") /\ UNCHANGED gens
     ELSE Goto(c, "idle") /\ gens' = [gens EXCEPT ![c] = 0]
  /\ UNCHANGED <<batchVars, cacheVars, readVars, key, calls, history, evictVars>>

\* m_readSet.lower_bound (m_readLast)
Ahead == {k \in m_readSet : k >= m_readLast}

\* The locked region at the head of threadEntry's loop.
ThreadEntry(r) ==
  /\ pc[r] = "top"
  /\ \/ /\ m_readShut /\ Goto(r, "exit")
        /\ UNCHANGED <<m_readSet, m_readLast, key, gens, late, owed>>
     \/ /\ ~m_readShut /\ m_readSet = {}
        /\ pc' = [NotifyGen(pc) EXCEPT ![r] = "asleep"]
        /\ UNCHANGED <<m_readSet, m_readLast, key, gens, late, owed>>
     \/ /\ ~m_readShut /\ m_readSet # {}
        /\ LET wraps == Ahead = {}
               hash == Min(IF wraps THEN m_readSet ELSE Ahead)
           IN /\ m_readSet' = m_readSet \ {hash}
              /\ m_readLast' = hash
              /\ key' = [key EXCEPT ![r] = hash]
              /\ late' = IF hash \in returned THEN late \cup {r} ELSE late
              /\ owed' = [c \in Clients |-> owed[c] \ {hash}]
              /\ gens' = [c \in Clients |-> IF wraps /\ gens[c] > 0 THEN gens[c] - 1 ELSE gens[c]]
              /\ pc' = [(IF wraps THEN NotifyGen(pc) ELSE pc) EXCEPT ![r] = "cache"]
  /\ UNCHANGED <<batchVars, cacheVars, m_readShut, calls, returned, missed, evictVars>>

----
(* The destructor: stop the prefetch threads, join them, destroy the backend. *)

Shut ==
  /\ ~m_readShut /\ \A c \in Clients : pc[c] = "idle"
  /\ m_readShut' = TRUE
  /\ pc' = [t \in Threads |-> IF pc[t] = "asleep" THEN "top" ELSE pc[t]]
  /\ UNCHANGED <<batchVars, cacheVars, m_readSet, m_readLast, key, calls, gens, history, evictVars>>

Join ==
  /\ m_readShut /\ \A r \in Readers : pc[r] = "exit"
  /\ Destroy
  /\ UNCHANGED dbVars

Next ==
  \/ \E c \in Clients : \/ \E k \in Objects : StartFetch(c, k) \/ StartStore(c, k)
                        \/ \E k \in Posted : StartAsync(c, k)
                        \/ Store(c) \/ AsyncFetch(c) \/ StartWait(c) \/ WaitReads(c)
  \/ \E t \in Threads : DoFetch(t)
  \/ \E r \in Readers : ThreadEntry(r)
  \/ Evict \/ Shut \/ Join
  \/ (TaskStep \/ WaitForWriting) /\ UNCHANGED dbVars

Spec == Init /\ [][Next]_vars

\* Threads that hold no lock and wait for nothing are scheduled: the job queue
\* runs the write task, and the prefetch threads, the clients inside a call and
\* the destructor go on.
Fairness ==
  /\ WF_vars(TaskStep /\ UNCHANGED dbVars)
  /\ WF_vars(WaitForWriting /\ UNCHANGED dbVars)
  /\ \A t \in Threads : WF_vars(DoFetch(t))
  /\ \A r \in Readers : WF_vars(ThreadEntry(r))
  /\ \A c \in Clients : WF_vars(Store(c) \/ AsyncFetch(c) \/ WaitReads(c))
FairSpec == Spec /\ Fairness

----
(* Properties. *)

\* BatchWriter under the database is a write-behind queue: whatever store() is
\* given is written, in batches, and the destructor returns only when all of it
\* is on disk ("pending writes flushed", Database.h).
Implements == WB!FairSpec

\* A fetch that begins after store() of its object returned comes back empty only
\* if the positive cache has dropped the object meanwhile: while it is cached,
\* neither the write that is still pending nor a negative entry hides it.
MissedOnlyIfEvicted == missed \subseteq evicted

\* The negative cache holds what is "known to be not in the database": nothing
\* the backend holds, unless its store() is still on the way to the erase.
Storing(k) == \E c \in Clients : key[c] = k /\ pc[c] \in {"store1", "store2", "store3"}
KnownAbsentIsAbsent == \A k \in m_negCache \cap disk : Storing(k)

\* waitReads returns only when a prefetch thread has taken up every read that was
\* posted before the call: two generations are enough, whatever the order.
WaitCoversPosted ==
  [][\A c \in Clients : pc[c] = "check" /\ pc'[c] = "idle" => owed[c] = {}]_vars

\* No wake-up is lost: a client leaves waitReads.
InWait(c) == pc[c] \in {"check", "waiting"}
WaitersReturn == \A c \in Clients : InWait(c) ~> ~InWait(c)
====

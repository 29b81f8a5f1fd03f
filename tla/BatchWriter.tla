---- MODULE BatchWriter ----
(***************************************************************************)
(* NodeStore's BatchWriter (ripple_core/nodestore/impl/BatchWriter.cpp) in *)
(* the HyperLevelDB backend; LevelDB and RocksDB use it the same way when  *)
(* built with BACKENDBATCHING.  The NodeStoreScheduler runs its task as a  *)
(* job of the JobQueue.  A node object is named by its hash, so the vector mWriteSet  *)
(* is the set of the hashes in it: storing an object again writes the same *)
(* bytes again.                                                            *)
(***************************************************************************)
EXTENDS Naturals, FiniteSets

CONSTANT Objects

VARIABLES
  mWriteSet, mWritePending,
  writer,        \* the task: "none", "queued" as a job, at the "swap", at the "write"
  set,           \* writeBatch's local batch, outside the lock
  disk,          \* what the backend holds
  destructor     \* "none", "check"s mWritePending, "asleep" in wait, "done"

batchVars == <<mWriteSet, mWritePending, writer, set, disk, destructor>>

BatchInit ==
  /\ mWriteSet = {} /\ mWritePending = FALSE
  /\ writer = "none" /\ set = {} /\ disk = {}
  /\ destructor = "none"

\* BatchWriter::store, and scheduleTask under its lock.
BatchStore(o) ==
  /\ destructor = "none"
  /\ mWriteSet' = mWriteSet \cup {o}
  /\ mWritePending' = TRUE
  /\ writer' = IF mWritePending THEN writer ELSE "queued"
  /\ UNCHANGED <<set, disk, destructor>>

\* The job queue runs the task.
StartTask ==
  /\ writer = "queued"
  /\ writer' = "swap"
  /\ UNCHANGED <<mWriteSet, mWritePending, set, disk, destructor>>

\* The locked part of writeBatch's loop: take the whole set, or find it empty,
\* give the pending flag back and wake the destructor.
SwapBatch ==
  /\ writer = "swap"
  /\ set' = mWriteSet /\ mWriteSet' = {}
  /\ writer' = IF mWriteSet = {} THEN "none" ELSE "write"
  /\ IF mWriteSet = {}
     THEN /\ mWritePending' = FALSE
          /\ destructor' = IF destructor = "asleep" THEN "check" ELSE destructor
     ELSE UNCHANGED <<mWritePending, destructor>>
  /\ UNCHANGED disk

\* The backend stores the batch, with no lock held.  Its destructor destroys m_db
\* before m_batch, which is declared first; a batch then goes to a closed store.
WriteBatch ==
  /\ writer = "write"
  /\ disk' \in IF destructor = "none" THEN {disk \cup set} ELSE {disk, disk \cup set}
  /\ set' = {}
  /\ writer' = "swap"
  /\ UNCHANGED <<mWriteSet, mWritePending, destructor>>

\* Mutant: the database is destroyed while tasks are still to run.
AnyTime == TRUE

\* m_taskCount = 0, which NodeStoreScheduler asserts when the job queue, its
\* child, has stopped; Application destroys the database after that.
TasksDone == writer = "none"

\* ~BatchWriter: waitForWriting tests the flag under the lock, and sleeps while
\* it is set.
Destroy ==
  /\ destructor = "none" /\ TasksDone
  /\ destructor' = "check"
  /\ UNCHANGED <<mWriteSet, mWritePending, writer, set, disk>>

WaitForWriting ==
  /\ destructor = "check"
  /\ destructor' = IF mWritePending THEN "asleep" ELSE "done"
  /\ UNCHANGED <<mWriteSet, mWritePending, writer, set, disk>>

TaskStep == StartTask \/ SwapBatch \/ WriteBatch
BatchNext ==
  \/ \E o \in Objects : BatchStore(o)
  \/ TaskStep
  \/ Destroy \/ WaitForWriting

BatchSpec == BatchInit /\ [][BatchNext]_batchVars

\* What has been handed over, wherever it is now.
Unwritten == mWriteSet \cup set

WB == INSTANCE WriteBehind WITH
  Items <- Objects,
  accepted <- Unwritten \cup disk,
  saved <- disk,
  waiting <- destructor \in {"check", "asleep"},
  due <- IF destructor \in {"check", "asleep"} THEN Unwritten \cup disk ELSE {}
====

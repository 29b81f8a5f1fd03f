--------------------------- MODULE WorkingLedger ----------------------------
(***************************************************************************)
(* stellar::LedgerMaster and the working ledger database it keeps in step   *)
(* with the last closed ledger: loading it at startup, ensureSync (by the   *)
(* difference of two ledgers or by a full import), and the transaction that *)
(* a ledger close runs in, with crashes between any two statements, failed  *)
(* statements and failed commits.  All of it runs under the master lock.    *)
(***************************************************************************)
EXTENDS Integers

CONSTANTS
  Ledgers,   \* ledgers, by hash
  None,      \* the zero hash
  Entries,   \* accounts, trust lines and offers
  Values,    \* the contents of an entry,
  Absent,    \* one of which stands for no entry
  State,     \* State[l] gives the entries of ledger l
  Parent     \* the ledger before each ledger, or None

ASSUME LedgersAssumption ==
  /\ None \notin Ledgers
  /\ Absent \in Values
  /\ State \in [Ledgers -> [Entries -> Values]]
  /\ Parent \in [Ledgers -> Ledgers \cup {None}] /\ \A l \in Ledgers : Parent[l] # l

VARIABLES
  disk,      \* what is committed: StoreState's lastClosedLedger and
             \* lastClosedLedgerContent, and the three tables
  db,        \* what the connection sees: disk, but for the open transaction
  open,      \* whether SQLite has a transaction open
  level,     \* mTransactionLevel
  last,      \* mLastLedgerHash, and the hash of mCurrentCLF
  pc,        \* where the program is
  target,    \* the ledger the database is being brought to
  todo,      \* the entries still to be written
  torn,      \* history: an import failed and nothing has repaired the tables
  lost       \* history: a row was not written since the tables were last dropped

vars == <<disk, db, open, level, last, pc, target, todo, torn, lost>>

Empty == [e \in Entries |-> Absent]
At(l, tables) == [lcl |-> l, content |-> l, tables |-> tables]
Changed(old, new) == {e \in Entries : old[e] # new[e]}

\* A first start: getSQLInit creates empty tables.
Init ==
  /\ disk = At(None, Empty) /\ db = disk
  /\ open = FALSE /\ level = 0
  /\ last = None /\ target = None
  /\ pc = "down" /\ todo = {} /\ torn = FALSE /\ lost = FALSE

----------------------------------------------------------------------------
(* Database::beginTransaction, endTransaction and the row statements *)

\* BEGIN fails inside a transaction that an earlier COMMIT left open.
CanBegin == ~open
Begun == open' = TRUE /\ level' = level + 1

\* COMMIT of what the connection sees as new.
Commit(new) == disk' = new /\ db' = new /\ open' = FALSE /\ level' = level - 1

Rollback == db' = disk /\ open' = FALSE /\ level' = level - 1 /\ UNCHANGED disk

\* A COMMIT that fails: the level is already down; SQLite has rolled the
\* transaction back or keeps it open, depending on the error.
CommitFailsKeepsLevel(new) == UNCHANGED <<disk, level>> /\ open' = FALSE /\ db' = disk
CommitFails(new) ==
  /\ UNCHANGED disk
  /\ level' = level - 1
  /\ \/ open' = FALSE /\ db' = disk
     \/ open' = TRUE /\ db' = new

\* storeAdd, storeChange and storeDelete: INSERT OR REPLACE, an UPDATE that
\* does nothing without a row, and DELETE.
Store(tables, e, old, new) ==
  IF old # Absent /\ new # Absent /\ tables[e] = Absent THEN tables
  ELSE [tables EXCEPT ![e] = new]

StoreEntry(e, old, new) ==
  /\ e \in todo
  /\ todo' = todo \ {e}
  /\ db' = [db EXCEPT !.tables = Store(@, e, old, new)]

\* A row statement that fails is logged, and the operation goes on.
RowFails(e) ==
  /\ pc \in {"delta", "import", "closing"}
  /\ e \in todo
  /\ todo' = todo \ {e}
  /\ lost' = TRUE
  /\ UNCHANGED <<disk, db, open, level, last, pc, target, torn>>

----------------------------------------------------------------------------
(* Startup *)

\* loadLastKnownCLF.  The ledger is found in the database's own copy of its
\* header or in the node store, or not at all.
LoadLastKnownCLF(found) ==
  /\ pc = "down"
  /\ last' = IF found THEN disk.lcl ELSE None
  /\ pc' = "idle"
  /\ UNCHANGED <<disk, db, open, level, target, todo, torn, lost>>

\* The process ends: memory is lost and the open transaction rolled back.  An
\* import that was cut short left no marker, so the next start repeats it.
Crash ==
  /\ pc # "down"
  /\ pc' = "down"
  /\ db' = disk /\ open' = FALSE /\ level' = 0
  /\ last' = None /\ target' = None /\ todo' = {}
  /\ torn' = (torn /\ disk.lcl # None)
  /\ UNCHANGED <<disk, lost>>

----------------------------------------------------------------------------
(* ensureSync *)

\* The database is at l already.
AlreadySynced(l) ==
  /\ pc = "idle" /\ last = l
  /\ pc' = "synced" /\ target' = l
  /\ UNCHANGED <<disk, db, open, level, last, todo, torn, lost>>

\* catchUp, when the difference from mCurrentCLF can be computed.
CatchUp(l) ==
  /\ pc = "idle" /\ last # l /\ last # None
  /\ CanBegin /\ Begun
  /\ pc' = "delta" /\ target' = l
  /\ todo' = Changed(State[last], State[l])
  /\ UNCHANGED <<disk, db, last, torn, lost>>

CatchUpEntry(e) ==
  /\ pc = "delta"
  /\ StoreEntry(e, State[last][e], State[target][e])
  /\ UNCHANGED <<disk, open, level, last, pc, target, torn, lost>>

\* setLastClosedLedger after endTransaction(true), unless updateDBFromLedger or
\* the commit throws.
FinishSetsLastEarly(next) ==
  \/ Commit(At(target, db.tables)) /\ last' = target /\ pc' = next
  \/ (Rollback \/ CommitFails(At(target, db.tables))) /\ last' = target /\ pc' = "idle"
Finish(next) ==
  \/ Commit(At(target, db.tables)) /\ last' = target /\ pc' = next
  \/ (Rollback \/ CommitFails(At(target, db.tables))) /\ UNCHANGED last /\ pc' = "idle"

FinishCatchUp ==
  /\ pc = "delta" /\ todo = {}
  /\ Finish("synced")
  /\ UNCHANGED <<target, todo, torn, lost>>

\* importLedgerState: first of all the marker is cleared.  These statements run
\* outside of a transaction, unless a failed commit left one open.
Autocommit(new) == db' = new /\ disk' = IF open THEN disk ELSE new

BeginImportKeepsMarker(l) ==
  /\ pc = "idle" /\ last # l
  /\ pc' = "drop" /\ target' = l
  /\ UNCHANGED <<disk, db, open, level, last, todo, torn, lost>>
BeginImport(l) ==
  /\ pc = "idle" /\ last # l
  /\ Autocommit([db EXCEPT !.lcl = None])
  /\ pc' = "drop" /\ target' = l
  /\ UNCHANGED <<open, level, last, todo, torn, lost>>

\* LedgerEntry::dropAll and the start of the transaction.
DropAll ==
  /\ pc = "drop" /\ CanBegin
  /\ disk' = [disk EXCEPT !.tables = Empty] /\ db' = disk'
  /\ Begun
  /\ pc' = "import"
  /\ todo' = Changed(Empty, State[target])
  /\ lost' = FALSE
  /\ UNCHANGED <<last, target, torn>>

\* dropAll throws after some of the tables, or the transaction does not begin.
DropAllFails(dropped) ==
  /\ pc = "drop"
  /\ Autocommit([db EXCEPT !.tables = [e \in Entries |-> IF e \in dropped THEN Absent ELSE @[e]]])
  /\ pc' = "idle"
  /\ torn' = (torn \/ ~open)
  /\ UNCHANGED <<open, level, last, target, todo, lost>>

ImportEntry(e) ==
  /\ pc = "import"
  /\ StoreEntry(e, Absent, State[target][e])
  /\ UNCHANGED <<disk, open, level, last, pc, target, torn, lost>>

\* Every kProgressCount entries are committed, and a new transaction begins.
ImportBatch ==
  /\ pc = "import"
  /\ disk' = db
  /\ UNCHANGED <<db, open, level, last, pc, target, todo, torn, lost>>

\* A missing node, a failed statement or a failed commit ends the import.
ImportFails ==
  /\ pc = "import"
  /\ Rollback \/ \E new \in {db, At(target, db.tables)} : CommitFails(new)
  /\ pc' = "idle" /\ todo' = {}
  /\ torn' = TRUE
  /\ UNCHANGED <<last, target, lost>>

FinishImport ==
  /\ pc = "import" /\ todo = {}
  /\ Commit(At(target, db.tables))
  /\ last' = target /\ pc' = "synced"
  /\ torn' = FALSE
  /\ UNCHANGED <<target, todo, lost>>

\* ensureSync returned true to beginConsensus or to the startup code.
Return ==
  /\ pc = "synced"
  /\ pc' = "idle"
  /\ UNCHANGED <<disk, db, open, level, last, target, todo, torn, lost>>

----------------------------------------------------------------------------
(* accept, after ensureSync of the previous ledger *)

\* An exception of beginClosingLedger is not caught and ends the process, which
\* is a Crash.
BeginClosingLedger(l) ==
  /\ pc = "synced" /\ Parent[l] = target
  /\ CanBegin /\ Begun
  /\ pc' = "closing" /\ target' = l
  /\ todo' = Changed(State[target], State[l])
  /\ UNCHANGED <<disk, db, last, torn, lost>>

\* TransactionEngine::txnWrite, as far as the last write of an entry goes.
TxnWrite(e) ==
  /\ pc = "closing"
  /\ StoreEntry(e, State[last][e], State[target][e])
  /\ UNCHANGED <<disk, open, level, last, pc, target, torn, lost>>

CommitLedgerClose ==
  /\ pc = "closing" /\ todo = {}
  /\ Finish("idle")
  /\ UNCHANGED <<target, todo, torn, lost>>

Next ==
  \/ \E found \in BOOLEAN : LoadLastKnownCLF(found)
  \/ \E l \in Ledgers :
       AlreadySynced(l) \/ CatchUp(l) \/ BeginImport(l) \/ BeginClosingLedger(l)
  \/ \E e \in Entries : CatchUpEntry(e) \/ ImportEntry(e) \/ TxnWrite(e) \/ RowFails(e)
  \/ \E dropped \in SUBSET Entries : DropAllFails(dropped)
  \/ FinishCatchUp \/ DropAll \/ ImportBatch \/ ImportFails \/ FinishImport
  \/ Return \/ CommitLedgerClose \/ Crash

Spec == Init /\ [][Next]_vars

----------------------------------------------------------------------------
(* Properties *)

Images == [lcl : Ledgers \cup {None}, content : Ledgers \cup {None},
           tables : [Entries -> Values]]

\* The variables have their types; mTransactionLevel is 1 exactly in the middle
\* of an operation, as beginClosingLedger and setLastClosedLedger assert.
TypeOK ==
  /\ disk \in Images /\ db \in Images
  /\ open \in BOOLEAN /\ torn \in BOOLEAN /\ lost \in BOOLEAN
  /\ level = IF pc \in {"delta", "import", "closing"} THEN 1 ELSE 0
  /\ last \in Ledgers \cup {None} /\ target \in Ledgers \cup {None}
  /\ pc \in {"down", "idle", "delta", "drop", "import", "synced", "closing"}
  /\ todo \subseteq Entries

\* Whatever statement the process stops at, a database that names a ledger in
\* lastClosedLedger holds the entries and the header of that ledger, unless it
\* was updated by differences on top of a failed import, or a row statement
\* failed.
DiskMatchesMarker ==
  disk.lcl # None /\ ~torn /\ ~lost => disk = At(disk.lcl, State[disk.lcl])

\* The ledger ensureSync and the next difference start from, mLastLedgerHash,
\* is the one on disk, whichever statements and commits failed, unless an
\* import failed since.
MemoryMatchesDisk ==
  last # None /\ ~torn /\ pc \notin {"drop", "import"} => disk.lcl = last

\* The tables on disk never change under a marker that stays: every commit of
\* new rows clears or moves lastClosedLedger in the same transaction or before.
MarkerGuardsTables ==
  [][disk.lcl # None /\ disk.tables' # disk.tables => disk.lcl' # disk.lcl]_vars

\* When ensureSync returns true and every row was written, the database is at
\* the ledger it was asked for.
SyncedMeansSame == pc = "synced" /\ ~lost => disk = At(target, State[target])
=============================================================================

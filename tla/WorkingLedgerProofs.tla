------------------------ MODULE WorkingLedgerProofs -------------------------
(***************************************************************************)
(* The working ledger database stays at the ledger its marker names, and    *)
(* memory agrees with it, for any ledgers and entries.                      *)
(***************************************************************************)
EXTENDS WorkingLedger, TLAPS

\* The tables in the middle of a change from old to new.
Between(old, new) == [e \in Entries |-> IF e \in todo THEN old[e] ELSE new[e]]

\* The inductive invariant: the open transaction holds the entries that are no
\* longer to be written, on top of the ledger the operation started from.
DBInv ==
  /\ TypeOK
  /\ DiskMatchesMarker
  /\ MemoryMatchesDisk
  /\ ~open => db = disk
  /\ pc \in {"delta", "import", "closing"} => open
  /\ pc \in {"delta", "drop", "import", "synced", "closing"} => target \in Ledgers
  /\ pc \in {"delta", "synced", "closing"} => last \in Ledgers
  /\ pc = "synced" => last = target
  /\ pc = "down" => last = None /\ ~open
  /\ pc \in {"delta", "closing"} /\ ~torn /\ ~lost =>
       db.tables = Between(State[last], State[target])
  /\ pc = "drop" => IF open THEN torn \/ last = None \/ disk.lcl = last
                    ELSE disk.lcl = None
  /\ pc = "import" =>
       /\ disk.lcl = None /\ db.lcl = None
       /\ ~lost => db.tables = Between(Empty, State[target])

\* The first start.
LEMMA DBInit == Init => DBInv
<1> SUFFICES ASSUME Init PROVE DBInv
  OBVIOUS
<1>1. Empty \in [Entries -> Values]
  BY LedgersAssumption DEF Empty
<1>2. TypeOK
  BY Zenon, <1>1 DEF Init, TypeOK, Images, At
<1> QED BY <1>2 DEF Init, DBInv, DiskMatchesMarker, MemoryMatchesDisk, At

\* Writing the new contents of one more entry.
LEMMA StoreEntryBetween ==
  ASSUME NEW e \in Entries, NEW old \in [Entries -> Values], NEW new \in [Entries -> Values],
         db \in Images, todo \subseteq Entries, StoreEntry(e, old[e], new[e])
  PROVE  /\ todo' \subseteq Entries
         /\ db' \in Images /\ db'.lcl = db.lcl
         /\ db.tables = Between(old, new) => db'.tables = Between(old, new)'
<1>1. /\ e \in todo /\ todo' = todo \ {e}
      /\ db' = [db EXCEPT !.tables = Store(db.tables, e, old[e], new[e])]
  BY DEF StoreEntry
<1>2. Store(db.tables, e, old[e], new[e]) \in [Entries -> Values]
  BY DEF Store, Images
<1>3. db' \in Images /\ db'.lcl = db.lcl
      /\ db'.tables = Store(db.tables, e, old[e], new[e])
  BY <1>1, <1>2 DEF Images
<1>4. ASSUME db.tables = Between(old, new)
      PROVE  Store(db.tables, e, old[e], new[e]) = [db.tables EXCEPT ![e] = new[e]]
  BY <1>1, <1>4 DEF Store, Between
<1>5. ASSUME db.tables = Between(old, new)
      PROVE  db'.tables = Between(old, new)'
  BY <1>1, <1>3, <1>4, <1>5 DEF Between
<1> QED BY <1>1, <1>3, <1>5

\* A ledger is reached once nothing is left to be written.
LEMMA BetweenDone ==
  ASSUME NEW old, NEW new \in [Entries -> Values], todo = {}
  PROVE  Between(old, new) = new
BY DEF Between

\* Every difference is written to start from the old ledger.
LEMMA BetweenStart ==
  ASSUME NEW old \in [Entries -> Values], NEW new \in [Entries -> Values],
         todo' = Changed(old, new)
  PROVE  Between(old, new)' = old
BY DEF Between, Changed

\* The images of a ledger in the database.
LEMMA AtType ==
  ASSUME NEW l \in Ledgers \cup {None}, NEW tables \in [Entries -> Values]
  PROVE  At(l, tables) \in Images /\ At(l, tables).lcl = l
BY DEF At, Images

\* The end of a difference or of a close.
LEMMA FinishStep ==
  ASSUME DBInv, NEW next \in {"synced", "idle"}, pc \in {"delta", "closing"}, todo = {},
         Finish(next), UNCHANGED <<target, todo, torn, lost>>
  PROVE  DBInv'
<1>1. /\ target \in Ledgers /\ last \in Ledgers /\ level = 1 /\ open
      /\ db \in Images /\ disk \in Images
  BY DEF DBInv, TypeOK
<1>2. State[target] \in [Entries -> Values] /\ db.tables \in [Entries -> Values]
      /\ None \notin Ledgers
  BY <1>1, LedgersAssumption DEF Images
<1>3. ~torn /\ ~lost => db.tables = State[target]
  BY <1>2, BetweenDone DEF DBInv
<1> DEFINE new == At(target, db.tables)
<1>4. new \in Images /\ new.lcl = target /\ (~torn /\ ~lost => new = At(new.lcl, State[new.lcl]))
  BY <1>1, <1>2, <1>3, AtType
<1> HIDE DEF new
<1>5. CASE Commit(new) /\ last' = target /\ pc' = next
  <2>1. disk' = new /\ db' = new /\ open' = FALSE /\ level' = 0 /\ last' = target
    BY <1>1, <1>5 DEF Commit
  <2>2. TypeOK'
    BY Zenon, <1>1, <1>4, <1>5, <2>1 DEF TypeOK, DBInv
  <2> QED BY <1>1, <1>2, <1>4, <1>5, <2>1, <2>2 DEF DBInv, DiskMatchesMarker, MemoryMatchesDisk
<1>6. CASE (Rollback \/ CommitFails(new)) /\ UNCHANGED last /\ pc' = "idle"
  <2>1. level' = 0
    BY <1>1, <1>6 DEF Rollback, CommitFails
  <2>2. /\ disk' = disk /\ db' \in {disk, new} /\ open' \in BOOLEAN
        /\ ~open' => db' = disk
    BY <1>6, Zenon DEF Rollback, CommitFails
  <2>3. TypeOK'
    BY <1>1, <1>4, <1>6, <2>1, <2>2 DEF TypeOK, DBInv
  <2> QED BY <1>1, <1>6, <2>1, <2>2, <2>3 DEF DBInv, DiskMatchesMarker, MemoryMatchesDisk
<1> QED BY <1>5, <1>6 DEF Finish, new

\* One more entry of a difference or of a close.
LEMMA EntryStep ==
  ASSUME DBInv, NEW e \in Entries, pc \in {"delta", "closing"},
         StoreEntry(e, State[last][e], State[target][e]),
         UNCHANGED <<disk, open, level, last, pc, target, torn, lost>>
  PROVE  DBInv'
<1>1. /\ target \in Ledgers /\ last \in Ledgers /\ db \in Images /\ todo \subseteq Entries
  BY DEF DBInv, TypeOK
<1>2. State[target] \in [Entries -> Values] /\ State[last] \in [Entries -> Values]
  BY <1>1, LedgersAssumption
<1>3. /\ todo' \subseteq Entries /\ db' \in Images
      /\ db.tables = Between(State[last], State[target]) =>
           db'.tables = Between(State[last], State[target])'
  BY <1>1, <1>2, StoreEntryBetween
<1>4. TypeOK'
  BY <1>3 DEF DBInv, TypeOK
<1> QED BY <1>3, <1>4 DEF DBInv, DiskMatchesMarker, MemoryMatchesDisk

\* The start of a difference or of a close.
LEMMA BeginStep ==
  ASSUME DBInv, NEW l \in Ledgers, last \in Ledgers, pc \in {"idle", "synced"},
         CanBegin, Begun, pc' \in {"delta", "closing"}, target' = l,
         todo' = Changed(State[last], State[l]), UNCHANGED <<disk, db, last, torn, lost>>
  PROVE  DBInv'
<1>1. /\ ~open /\ db = disk /\ level = 0 /\ open' = TRUE /\ level' = 1
  BY DEF DBInv, TypeOK, CanBegin, Begun
<1>2. State[l] \in [Entries -> Values] /\ State[last] \in [Entries -> Values]
      /\ last # None
  BY LedgersAssumption
<1>3. ~torn /\ ~lost => disk = At(last, State[last])
  BY <1>2 DEF DBInv, DiskMatchesMarker, MemoryMatchesDisk
<1>4. ~torn /\ ~lost => db.tables = State[last]
  BY <1>1, <1>3 DEF At
<1>5. Between(State[last], State[l])' = State[last]
  BY <1>2, BetweenStart
<1>6. todo' \subseteq Entries
  BY DEF Changed
<1>7. TypeOK'
  BY <1>1, <1>6 DEF DBInv, TypeOK
<1>8. ~torn' /\ ~lost' => db'.tables = Between(State[last], State[target])'
  BY <1>4, <1>5 DEF Between
<1> QED BY <1>1, <1>7, <1>8 DEF DBInv, DiskMatchesMarker, MemoryMatchesDisk

\* Every step keeps the invariant.
LEMMA DBNext == DBInv /\ [Next]_vars => DBInv'
<1> SUFFICES ASSUME DBInv, [Next]_vars PROVE DBInv'
  OBVIOUS
<1>0. /\ db \in Images /\ disk \in Images /\ todo \subseteq Entries /\ open \in BOOLEAN
      /\ level = IF pc \in {"delta", "import", "closing"} THEN 1 ELSE 0
      /\ None \notin Ledgers /\ Empty \in [Entries -> Values]
      /\ \A l \in Ledgers : State[l] \in [Entries -> Values]
  BY LedgersAssumption DEF DBInv, TypeOK, Empty
<1>1. ASSUME NEW found \in BOOLEAN, LoadLastKnownCLF(found) PROVE DBInv'
  <2>1. disk.lcl \in Ledgers \cup {None}
    BY <1>0 DEF Images
  <2>2. TypeOK'
    BY <1>1, <2>1 DEF DBInv, TypeOK, LoadLastKnownCLF
  <2> QED BY <1>1, <2>1, <2>2
    DEF DBInv, DiskMatchesMarker, MemoryMatchesDisk, LoadLastKnownCLF
<1>2. ASSUME NEW l \in Ledgers, AlreadySynced(l) PROVE DBInv'
  <2>1. TypeOK'
    BY <1>2 DEF DBInv, TypeOK, AlreadySynced
  <2> QED BY <1>2, <2>1 DEF DBInv, DiskMatchesMarker, MemoryMatchesDisk, AlreadySynced
<1>3. ASSUME NEW l \in Ledgers, CatchUp(l) PROVE DBInv'
  <2>1. last \in Ledgers
    BY <1>3 DEF CatchUp, DBInv, TypeOK
  <2> QED BY <1>3, <2>1, BeginStep DEF CatchUp
<1>4. ASSUME NEW l \in Ledgers, BeginClosingLedger(l) PROVE DBInv'
  <2>1. last \in Ledgers /\ last = target
    BY <1>4 DEF BeginClosingLedger, DBInv
  <2> QED BY <1>4, <2>1, BeginStep DEF BeginClosingLedger
<1>5. ASSUME NEW l \in Ledgers, BeginImport(l) PROVE DBInv'
  <2> DEFINE new == [db EXCEPT !.lcl = None]
  <2>1. new \in Images /\ new.lcl = None
    BY <1>0 DEF Images
  <2> HIDE DEF new
  <2>2. /\ db' = new /\ (open => disk' = disk) /\ (~open => disk' = new)
        /\ pc = "idle" /\ pc' = "drop" /\ target' = l
        /\ UNCHANGED <<open, level, last, todo, torn, lost>>
    BY <1>5 DEF BeginImport, Autocommit, new
  <2>3. TypeOK'
    BY <1>0, <2>1, <2>2 DEF DBInv, TypeOK
  <2> QED BY <2>1, <2>2, <2>3 DEF DBInv, DiskMatchesMarker, MemoryMatchesDisk
<1>6. CASE \E e \in Entries : CatchUpEntry(e) \/ TxnWrite(e)
  BY <1>6, EntryStep DEF CatchUpEntry, TxnWrite
<1>7. ASSUME NEW e \in Entries, ImportEntry(e) PROVE DBInv'
  <2>1. /\ pc = "import" /\ target \in Ledgers
        /\ StoreEntry(e, Empty[e], State[target][e])
        /\ UNCHANGED <<disk, open, level, last, pc, target, torn, lost>>
    BY <1>7 DEF ImportEntry, Empty, DBInv
  <2>2. /\ todo' \subseteq Entries /\ db' \in Images /\ db'.lcl = db.lcl
        /\ db.tables = Between(Empty, State[target]) =>
             db'.tables = Between(Empty, State[target])'
    BY <1>0, <2>1, StoreEntryBetween
  <2>3. TypeOK'
    BY <2>1, <2>2 DEF DBInv, TypeOK
  <2> QED BY <2>1, <2>2, <2>3 DEF DBInv, DiskMatchesMarker, MemoryMatchesDisk
<1>8. ASSUME NEW dropped \in SUBSET Entries, DropAllFails(dropped) PROVE DBInv'
  <2> DEFINE new == [db EXCEPT !.tables = [e \in Entries |->
                       IF e \in dropped THEN Absent ELSE db.tables[e]]]
  <2>1. new \in Images
    BY Zenon, <1>0, LedgersAssumption DEF Images
  <2> HIDE DEF new
  <2>2. /\ db' = new /\ (open => disk' = disk) /\ (~open => disk' = new)
        /\ pc = "drop" /\ pc' = "idle" /\ torn' = (torn \/ ~open)
        /\ UNCHANGED <<open, level, last, target, todo, lost>>
    BY <1>8 DEF DropAllFails, Autocommit, new
  <2>3. TypeOK'
    BY <1>0, <2>1, <2>2 DEF DBInv, TypeOK
  <2> QED BY Zenon, <1>0, <2>2, <2>3 DEF DBInv, DiskMatchesMarker, MemoryMatchesDisk
<1>9. CASE FinishCatchUp
  BY <1>9, FinishStep DEF FinishCatchUp
<1>10. CASE CommitLedgerClose
  BY <1>10, FinishStep DEF CommitLedgerClose
<1>11. CASE DropAll
  <2> DEFINE new == [disk EXCEPT !.tables = Empty]
  <2>1. new \in Images /\ new.lcl = disk.lcl /\ new.tables = Empty
    BY <1>0 DEF Images
  <2> HIDE DEF new
  <2>2. /\ disk' = new /\ db' = new /\ pc = "drop" /\ ~open /\ open' = TRUE
        /\ level' = level + 1 /\ pc' = "import" /\ todo' = Changed(Empty, State[target])
        /\ lost' = FALSE /\ UNCHANGED <<last, target, torn>>
    BY <1>11 DEF DropAll, CanBegin, Begun, new
  <2>3. target \in Ledgers /\ disk.lcl = None
    BY <2>2 DEF DBInv
  <2>4. Between(Empty, State[target])' = Empty
    <3>1. Between(Empty, State[target])' = [e \in Entries |->
            IF e \in todo' THEN Empty[e] ELSE State[target][e]]
      BY <2>2 DEF Between, Empty
    <3> QED BY <1>0, <2>2, <2>3, <3>1 DEF Changed
  <2>5. todo' \subseteq Entries /\ level' = 1
    BY <1>0, <2>2 DEF Changed
  <2>6. TypeOK'
    BY Zenon, <2>1, <2>2, <2>5 DEF DBInv, TypeOK
  <2> QED BY <2>1, <2>2, <2>3, <2>4, <2>6 DEF DBInv, DiskMatchesMarker, MemoryMatchesDisk
<1>12. CASE ImportBatch
  <2>1. /\ disk' = db /\ pc = "import"
        /\ UNCHANGED <<db, open, level, last, pc, target, todo, torn, lost>>
    BY <1>12 DEF ImportBatch
  <2>2. TypeOK'
    BY <1>0, <2>1 DEF DBInv, TypeOK
  <2>3. Between(Empty, State[target])' = Between(Empty, State[target])
    BY <2>1 DEF Between, Empty
  <2> QED BY <2>1, <2>2, <2>3 DEF DBInv, DiskMatchesMarker, MemoryMatchesDisk
<1>13. CASE ImportFails
  <2>1. /\ pc = "import" /\ pc' = "idle" /\ torn' = TRUE /\ todo' = {}
        /\ disk' = disk /\ level' = level - 1 /\ open' \in BOOLEAN
        /\ db' \in {disk, db, At(target, db.tables)}
        /\ ~open' => db' = disk
        /\ UNCHANGED <<last, target, lost>>
    BY Zenon, <1>13 DEF ImportFails, Rollback, CommitFails
  <2>2. At(target, db.tables) \in Images
    BY <1>0, <2>1, AtType DEF DBInv, Images
  <2>3. TypeOK'
    BY <1>0, <2>1, <2>2 DEF DBInv, TypeOK
  <2> QED BY <2>1, <2>3 DEF DBInv, DiskMatchesMarker, MemoryMatchesDisk
<1>14. CASE FinishImport
  <2> DEFINE new == At(target, db.tables)
  <2>1. /\ pc = "import" /\ todo = {} /\ disk' = new /\ db' = new /\ ~open'
        /\ open' = FALSE /\ level' = level - 1 /\ last' = target /\ pc' = "synced"
        /\ torn' = FALSE /\ UNCHANGED <<target, todo, lost>>
    BY <1>14 DEF FinishImport, Commit
  <2>2. target \in Ledgers
    BY <2>1 DEF DBInv
  <2>3. ~lost => db.tables = State[target]
    BY <1>0, <2>1, <2>2, BetweenDone DEF DBInv
  <2>4. new \in Images /\ new.lcl = target /\ (~lost => new = At(new.lcl, State[new.lcl]))
    BY <1>0, <2>2, <2>3, AtType DEF Images
  <2> HIDE DEF new
  <2>5. level' = 0 /\ last' \in Ledgers /\ target' \in Ledgers /\ todo' \subseteq Entries
    BY <1>0, <2>1, <2>2
  <2>6. TypeOK'
    BY Zenon, <2>1, <2>4, <2>5 DEF TypeOK, DBInv
  <2> QED BY <2>1, <2>2, <2>4, <2>6 DEF DBInv, DiskMatchesMarker, MemoryMatchesDisk
<1>15. CASE Return
  <2>1. TypeOK'
    BY <1>15 DEF DBInv, TypeOK, Return
  <2> QED BY <1>15, <2>1 DEF DBInv, DiskMatchesMarker, MemoryMatchesDisk, Return
<1>16. CASE Crash
  <2>1. TypeOK'
    BY Zenon, <1>0, <1>16 DEF DBInv, TypeOK, Crash
  <2> QED BY Zenon, <1>16, <2>1 DEF DBInv, DiskMatchesMarker, MemoryMatchesDisk, Crash
<1>17. ASSUME NEW e \in Entries, RowFails(e) PROVE DBInv'
  <2>1. TypeOK'
    BY <1>17 DEF DBInv, TypeOK, RowFails
  <2> QED BY <1>17, <2>1 DEF DBInv, DiskMatchesMarker, MemoryMatchesDisk, RowFails
<1>18. CASE UNCHANGED vars
  BY SMTT(60), <1>18 DEF vars, DBInv, TypeOK, DiskMatchesMarker, MemoryMatchesDisk, Between, Empty
<1> QED BY <1>1, <1>2, <1>3, <1>4, <1>5, <1>6, <1>7, <1>8, <1>9, <1>10, <1>11, <1>12,
           <1>13, <1>14, <1>15, <1>16, <1>17, <1>18 DEF Next

\* Whatever crashes and failures happen, the database on disk holds the ledger
\* its marker names, as long as no difference is applied after a failed import
\* and no row statement fails.
THEOREM DiskAlwaysMatchesMarker == Spec => []DiskMatchesMarker
<1>1. DBInv => DiskMatchesMarker
  BY DEF DBInv
<1> QED BY <1>1, DBInit, DBNext, PTL DEF Spec

\* mLastLedgerHash is the ledger on disk whenever ensureSync or a close uses it.
THEOREM MemoryAlwaysMatchesDisk == Spec => []MemoryMatchesDisk
<1>1. DBInv => MemoryMatchesDisk
  BY DEF DBInv
<1> QED BY <1>1, DBInit, DBNext, PTL DEF Spec

\* The variables have their types, and the transaction level is the one the
\* asserts expect.
THEOREM DatabaseTypes == Spec => []TypeOK
<1>1. DBInv => TypeOK
  BY DEF DBInv
<1> QED BY <1>1, DBInit, DBNext, PTL DEF Spec

\* The marker, if there is one, is the ledger in memory, and an incremental
\* change always leads to another ledger.
MarkInv ==
  /\ disk.lcl # None /\ last # None => disk.lcl = last
  /\ pc \in {"delta", "closing"} => last # target

\* Every step keeps that, and leaves no marker over tables it changes.
LEMMA MarkNext ==
  DBInv /\ MarkInv /\ [Next]_vars =>
    MarkInv' /\ (disk.lcl # None /\ disk.tables' # disk.tables => disk.lcl' # disk.lcl)
<1> DEFINE Guarded == disk.lcl # None /\ disk.tables' # disk.tables => disk.lcl' # disk.lcl
<1> SUFFICES ASSUME DBInv, MarkInv, [Next]_vars PROVE MarkInv' /\ Guarded
  OBVIOUS
<1>0. /\ db \in Images /\ disk \in Images /\ open \in BOOLEAN /\ None \notin Ledgers
      /\ \A l \in Ledgers : Parent[l] # l
  BY LedgersAssumption DEF DBInv, TypeOK
<1>1. CASE \E found \in BOOLEAN : LoadLastKnownCLF(found)
  BY <1>1 DEF LoadLastKnownCLF, MarkInv
<1>2. CASE \E l \in Ledgers : AlreadySynced(l) \/ CatchUp(l) \/ BeginClosingLedger(l)
  BY <1>0, <1>2 DEF AlreadySynced, CatchUp, BeginClosingLedger, MarkInv, DBInv
<1>3. ASSUME NEW l \in Ledgers, BeginImport(l) PROVE MarkInv' /\ Guarded
  <2>1. [db EXCEPT !.lcl = None].lcl = None
    BY <1>0 DEF Images
  <2>2. (disk' = disk \/ disk'.lcl = None) /\ last' = last /\ pc' = "drop"
    BY <1>3, <2>1 DEF BeginImport, Autocommit
  <2> QED BY <2>2 DEF MarkInv
<1>4. CASE \E e \in Entries : CatchUpEntry(e) \/ ImportEntry(e) \/ TxnWrite(e) \/ RowFails(e)
  BY <1>4 DEF CatchUpEntry, ImportEntry, TxnWrite, RowFails, MarkInv
<1>5. ASSUME NEW dropped \in SUBSET Entries, DropAllFails(dropped) PROVE MarkInv' /\ Guarded
  <2> DEFINE new == [db EXCEPT !.tables = [e \in Entries |->
                       IF e \in dropped THEN Absent ELSE db.tables[e]]]
  <2>1. new.lcl = db.lcl
    BY <1>0 DEF Images
  <2> HIDE DEF new
  <2>2. (open => disk' = disk) /\ (~open => disk' = new) /\ pc = "drop" /\ last' = last
        /\ pc' = "idle"
    BY <1>5 DEF DropAllFails, Autocommit, new
  <2>3. ~open => db = disk /\ disk.lcl = None
    BY <2>2 DEF DBInv
  <2> QED BY <1>0, <2>1, <2>2, <2>3 DEF MarkInv
<1>6. CASE FinishCatchUp \/ CommitLedgerClose
  <2>1. /\ pc \in {"delta", "closing"} /\ pc' \in {"synced", "idle"}
        /\ (disk' = At(target, db.tables) /\ last' = target) \/ (disk' = disk /\ last' = last)
    BY <1>6 DEF FinishCatchUp, CommitLedgerClose, Finish, Commit, Rollback, CommitFails
  <2>2. last # None /\ last # target
    BY <1>0, <2>1 DEF MarkInv, DBInv
  <2>3. At(target, db.tables).lcl = target
    BY DEF At
  <2> QED BY <2>1, <2>2, <2>3 DEF MarkInv
<1>7. CASE DropAll \/ ImportBatch \/ ImportFails \/ FinishImport
  <2>1. disk.lcl = None
    BY <1>7 DEF DropAll, CanBegin, ImportBatch, ImportFails, FinishImport, DBInv
  <2>2. CASE FinishImport
    BY <2>1, <2>2 DEF FinishImport, Commit, At, MarkInv
  <2>3. CASE DropAll \/ ImportBatch \/ ImportFails
    <3>1. [disk EXCEPT !.tables = Empty].lcl = disk.lcl
      BY <1>0 DEF Images
    <3>2. disk'.lcl = None /\ pc' \in {"import", "idle"}
      BY Zenon, <2>1, <2>3, <3>1 DEF DropAll, ImportBatch, ImportFails, Rollback, CommitFails, DBInv
    <3> QED BY <2>1, <3>2 DEF MarkInv
  <2> QED BY <1>7, <2>2, <2>3
<1>8. CASE Return \/ Crash
  BY <1>8 DEF Return, Crash, MarkInv
<1>9. CASE UNCHANGED vars
  BY <1>9 DEF vars, MarkInv
<1> QED BY <1>1, <1>2, <1>3, <1>4, <1>5, <1>6, <1>7, <1>8, <1>9 DEF Next

\* The tables on disk never change under a marker that stays.
THEOREM MarkerAlwaysGuards == Spec => MarkerGuardsTables
<1>1. Init => MarkInv
  BY DEF Init, MarkInv
<1>2. DBInv /\ MarkInv /\ [Next]_vars =>
        [disk.lcl # None /\ disk.tables' # disk.tables => disk.lcl' # disk.lcl]_vars
  BY MarkNext
<1> QED BY <1>1, <1>2, DBInit, DBNext, MarkNext, PTL DEF Spec, MarkerGuardsTables
=============================================================================

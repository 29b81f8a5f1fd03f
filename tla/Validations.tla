---- MODULE Validations ----
(***************************************************************************)
(* How validations that are no longer current reach the database           *)
(* (ripple_app/misc/Validations.cpp): threads push them to                 *)
(* mStaleValidations under mLock, a doWrite job swaps the vector out and   *)
(* writes it with the lock released, and flush, called when the server     *)
(* stops, polls until the job is done.  Clocks are left out: a validation  *)
(* may be found inside or outside the time window, and a current one may   *)
(* be found expired, at any time.                                          *)
(***************************************************************************)
EXTENDS ValidationSets

VARIABLES
  mStaleValidations, mWriting,
  staleWriter, \* the doWrite job: "none", "queued", at the head of its "loop", at the "write"
  vector,      \* doWrite's local batch, outside the lock
  db,          \* rows of the Validations table
  flusher,     \* flush: "none", "polling", "done"
  outdated,    \* history: validations that came when a newer one was current
  flushed      \* history: what flush found to be written

validationVars ==
  <<setVars, mStaleValidations, mWriting, staleWriter, vector, db, flusher, outdated, flushed>>

ValidationsInit ==
  /\ SetsInit
  /\ mStaleValidations = {} /\ mWriting = FALSE
  /\ staleWriter = "none" /\ vector = {} /\ db = {}
  /\ flusher = "none" /\ outdated = {} /\ flushed = {}

\* Push S to mStaleValidations and call condWrite.
PushStale(S) ==
  /\ mStaleValidations' = mStaleValidations \cup S
  /\ mWriting' = TRUE
  /\ staleWriter' = IF mWriting THEN staleWriter ELSE "queued"

AddValidation(v) ==
  /\ Record(v)
  /\ IF Replaced(v) # {}
     THEN PushStale(Replaced(v))
     ELSE UNCHANGED <<mStaleValidations, mWriting, staleWriter>>
  /\ outdated' = IF Newer(v) THEN outdated ELSE outdated \cup {v}
  /\ UNCHANGED <<vector, db, flusher, flushed>>

\* getCurrentValidations and getCurrentTrustedValidations: the current
\* validations of the validators S turn out to have expired.
Expire(S) ==
  /\ Current(S) # {}
  /\ PushStale(Current(S))
  /\ mCurrentValidations' =
       [n \in Nodes |-> IF n \in S THEN None ELSE mCurrentValidations[n]]
  /\ UNCHANGED <<mValidations, vector, db, flusher, outdated, flushed>>

\* The job starts; then, with the lock held, it swaps the vector out or stops.
StartWrite ==
  /\ staleWriter = "queued" /\ staleWriter' = "loop"
  /\ UNCHANGED <<setVars, mStaleValidations, mWriting, vector, db, flusher, outdated, flushed>>

\* Mutant: the job stops after one batch.
OneBatch == mStaleValidations = {} \/ db # {}

\* doWrite leaves its loop
NothingStale == mStaleValidations = {}

SwapStale ==
  /\ staleWriter = "loop"
  /\ IF NothingStale
     THEN /\ staleWriter' = "none" /\ mWriting' = FALSE
          /\ UNCHANGED <<mStaleValidations, vector>>
     ELSE /\ staleWriter' = "write" /\ UNCHANGED mWriting
          /\ vector' = mStaleValidations /\ mStaleValidations' = {}
  /\ UNCHANGED <<setVars, db, flusher, outdated, flushed>>

\* One transaction, with mLock released.
WriteStale ==
  /\ staleWriter = "write" /\ staleWriter' = "loop"
  /\ db' = db \cup vector /\ vector' = {}
  /\ UNCHANGED <<setVars, mStaleValidations, mWriting, flusher, outdated, flushed>>

DoWrite == StartWrite \/ SwapStale \/ WriteStale

UnwrittenStale == mStaleValidations \cup vector

\* flush empties mCurrentValidations, and then polls mWriting, every 100 ms with
\* the lock released.
Flush ==
  /\ flusher = "none" /\ flusher' = "polling"
  /\ IF Current(Nodes) # {}
     THEN PushStale(Current(Nodes))
     ELSE UNCHANGED <<mStaleValidations, mWriting, staleWriter>>
  /\ mCurrentValidations' = [n \in Nodes |-> None]
  /\ flushed' = UnwrittenStale \cup db \cup Current(Nodes)
  /\ UNCHANGED <<mValidations, vector, db, outdated>>

Poll ==
  /\ flusher = "polling" /\ ~mWriting
  /\ flusher' = "done" /\ flushed' = {}
  /\ UNCHANGED <<setVars, mStaleValidations, mWriting, staleWriter, vector, db, outdated>>

ValidationsNext ==
  \/ \E v \in AllValidations : AddValidation(v)
  \/ \E S \in SUBSET Nodes : Expire(S)
  \/ DoWrite
  \/ Flush \/ Poll

ValidationsSpec == ValidationsInit /\ [][ValidationsNext]_validationVars

\* The job queue runs the job, and the stopping thread keeps polling.
ValidationsFairSpec == ValidationsSpec /\ WF_validationVars(DoWrite) /\ WF_validationVars(Poll)

----
(* Properties. *)

StaleWB == INSTANCE WriteBehind WITH
  Items <- AllValidations,
  accepted <- UnwrittenStale \cup db,
  saved <- db,
  waiting <- flusher = "polling",
  due <- flushed

\* The writer of stale validations is a write-behind queue: every validation
\* that was replaced, expired or flushed is written, and flush returns only when
\* all that was there when it was called is in the database.
StaleImplements == StaleWB!FairSpec

\* Every validation received is current, on its way to the database or in it, in
\* exactly one place, except those that came when a newer one of the same
\* validator was current: these are in none.
Accounted ==
  LET all == <<Current(Nodes), mStaleValidations, vector, db>>
  IN \A v \in mValidations :
       Cardinality({i \in 1 .. 4 : v \in all[i]}) = IF v \in outdated THEN 0 ELSE 1
====

---- MODULE LedgerMaster ----
(***************************************************************************)
(* ripple_app/ledger/LedgerMaster.cpp: which ledger is the last fully      *)
(* validated one, and how the advance thread publishes the validated       *)
(* ledgers in order, acquires the missing ones and fills the history.      *)
(* Validations arrive in any order (ValidationSets), our consensus builds  *)
(* ledgers meanwhile, and missing ledgers are acquired from the network.   *)
(* A step is one stretch under m_mutex, or unlocked code between two.      *)
(***************************************************************************)
EXTENDS ValidationSets, FiniteSetsExt, Sequences

CONSTANTS
  Ledgers, SeqNo, Parent,   \* the ledgers of the network: a tree of numbered ledgers
  HashAt,           \* Ledger::getLedgerHash: HashAt[l][s] is l's ancestor with sequence s
  Start,            \* the ledger we start from
  Closable,         \* ledgers our consensus may close
  MinValidations,   \* mMinValidations, the configured quorum
  MaxLedgerGap,     \* MAX_LEDGER_GAP
  LedgerFetch,      \* siLedgerFetch: how far a pass over the history looks ahead
  MaxBuilds,        \* bound: ledgers our consensus builds
  MaxFaults         \* bound: exceptions, failed acquisitions, failed builds

\* None stands for no ledger too.
ASSUME LedgersAssumption ==
  /\ None \notin Ledgers /\ Start \in Ledgers
  /\ SeqNo \in [Ledgers -> Nat \ {0}] /\ Parent \in [Ledgers -> Ledgers \cup {None}]
  /\ \A l \in Ledgers : IF SeqNo[l] = 1 THEN Parent[l] = None
                        ELSE Parent[l] \in Ledgers /\ SeqNo[Parent[l]] = SeqNo[l] - 1
  /\ \A l \in Ledgers :
       /\ HashAt[l] \in [1 .. SeqNo[l] -> Ledgers] /\ HashAt[l][SeqNo[l]] = l
       /\ \A s \in 1 .. SeqNo[l] : SeqNo[HashAt[l][s]] = s
       /\ \A s \in 2 .. SeqNo[l] : Parent[HashAt[l][s]] = HashAt[l][s - 1]
  /\ MinValidations \in Nat /\ MaxLedgerGap \in Nat
  /\ \A v \in AllValidations : v.ledger \in Ledgers

VARIABLES
  mValidLedger, mPubLedger, mLastValidateHash, mBuildingLedgerSeq,
  mCompleteLedgers,   \* sequences
  have,               \* ledgers that can be found by hash
  bySeq,              \* LedgerHistory: the validated ledger of a sequence
  acquiring, failed,  \* inbound ledgers under way, and failed
  checks,             \* ledgers a new validation was received for, checkAccept still to run
  dispatch,           \* acquired ledgers whose LADispatch job is still to run
  built,              \* our consensus: where it is, and the ledger it builds
  mAdvanceThread, mAdvanceWork,
  advance,            \* where the advance thread is
  pubLedgers,         \* what it publishes, or the one ledger it adds to the history
  stream,             \* history: the ledger clients were told of last
  published,          \* history: all of them
  builds, faults      \* bounded counters

acceptVars == <<mValidLedger, mPubLedger, mLastValidateHash, bySeq>>
acquireVars == <<have, acquiring, failed>>
advanceVars == <<mAdvanceThread, mAdvanceWork, advance>>
pubVars == <<pubLedgers, stream, published>>
vars == <<setVars, acceptVars, acquireVars, advanceVars, pubVars, mBuildingLedgerSeq,
          mCompleteLedgers, checks, dispatch, built, builds, faults>>

Seqs == {SeqNo[l] : l \in Ledgers}
SeqOrZero(l) == IF l = None THEN 0 ELSE SeqNo[l]
ValidSeq == SeqOrZero(mValidLedger)
PubSeq == SeqOrZero(mPubLedger)

\* A server starts with Start, unvalidated (startNewLedger), or valid because it
\* was loaded from the database (loadOldLedger, with forceValid).
Init ==
  /\ SetsInit
  /\ \/ mValidLedger = None /\ mCompleteLedgers = {}
     \/ mValidLedger = Start /\ mCompleteLedgers = {SeqNo[Start]}
  /\ mPubLedger = mValidLedger /\ mLastValidateHash = None
  /\ have = {Start}
  /\ bySeq = [s \in Seqs |-> IF s \in mCompleteLedgers THEN Start ELSE None]
  /\ mBuildingLedgerSeq = 0
  /\ acquiring = {} /\ failed = {} /\ checks = {} /\ dispatch = {}
  /\ built = [at |-> "idle", ledger |-> None]
  /\ mAdvanceThread = FALSE /\ mAdvanceWork = FALSE /\ advance = "none"
  /\ pubLedgers = <<>> /\ stream = None /\ published = {}
  /\ builds = 0 /\ faults = 0

----
(* Accepting a ledger as fully validated. *)

\* getNeededValidations, with MIN_VALIDATION_RATIO
Needed ==
  LET last == IF mLastValidateHash = None THEN 0 ELSE TrustedCount(mLastValidateHash)
  IN Max({MinValidations, (last * 150) \div 256})

\* Mutant: work is only asked for when no thread runs.
AskIfIdle == mAdvanceWork' = ~mAdvanceThread
AskForWork == mAdvanceWork' = TRUE

\* tryAdvance, when the last validated ledger is valid
TryAdvance(valid) ==
  /\ AskForWork
  /\ IF ~mAdvanceThread /\ valid # None
     THEN mAdvanceThread' = TRUE /\ advance' = "queued"
     ELSE UNCHANGED <<mAdvanceThread, advance>>

\* Mutant: our own validation is counted twice.
OneShort(l) == TrustedCount(l) + 1 >= Needed
Enough(l) == TrustedCount(l) >= Needed

Acceptable(l) == SeqNo[l] > ValidSeq /\ Enough(l)

\* The rest of checkAccept(ledger) when there are enough validations.
Accept(l) ==
  /\ mLastValidateHash' = l /\ mValidLedger' = l
  /\ IF mPubLedger = None
     THEN mPubLedger' = l /\ bySeq' = [bySeq EXCEPT ![SeqNo[l]] = l]
     ELSE UNCHANGED <<mPubLedger, bySeq>>
  /\ TryAdvance(l)

\* checkAccept(ledger)
CheckLedger(l) ==
  IF Acceptable(l) THEN Accept(l) ELSE UNCHANGED <<acceptVars, advanceVars>>

\* findCreate for the ledgers S: an entry that failed stays failed.
FindCreate(S) == acquiring' = acquiring \cup (S \ (have \cup failed))

\* checkAccept(hash, seq)
CheckHash(l) ==
  IF SeqNo[l] <= ValidSeq \/ SeqNo[l] = mBuildingLedgerSeq
  THEN UNCHANGED <<acceptVars, advanceVars, acquireVars>>
  ELSE IF l \in have
       THEN CheckLedger(l) /\ UNCHANGED acquireVars
       ELSE FindCreate({l}) /\ UNCHANGED <<acceptVars, advanceVars, have, failed>>

\* addValidation; a validation older than the validator's current one is counted,
\* but nobody is told.
AddValidation(v) ==
  /\ Record(v)
  /\ checks' = IF Newer(v) THEN checks \cup {v.ledger} ELSE checks
  /\ UNCHANGED <<acceptVars, acquireVars, advanceVars, pubVars, mBuildingLedgerSeq,
                 mCompleteLedgers, dispatch, built, builds, faults>>

CheckAccept(l) ==
  /\ l \in checks /\ checks' = checks \ {l}
  /\ CheckHash(l)
  /\ UNCHANGED <<setVars, pubVars, mBuildingLedgerSeq, mCompleteLedgers, dispatch, built,
                 builds, faults>>

\* switchLedgers: consensus moves to a ledger of the network.
SwitchLedgers(l) ==
  /\ l \in have /\ Acceptable(l)
  /\ Accept(l)
  /\ UNCHANGED <<setVars, acquireVars, pubVars, mBuildingLedgerSeq, mCompleteLedgers, checks,
                 dispatch, built, builds, faults>>

----
(* Our consensus: the ledger it closes may or may not be the network's. *)

\* setBuildingLedger, when the round has closed the ledger
StartBuilding(l) ==
  /\ built.at = "idle" /\ builds < MaxBuilds /\ l \in Closable /\ Parent[l] \in have
  /\ builds' = builds + 1
  /\ built' = [at |-> "building", ledger |-> l]
  /\ mBuildingLedgerSeq' = SeqNo[l]
  /\ UNCHANGED <<setVars, acceptVars, acquireVars, advanceVars, pubVars, mCompleteLedgers,
                 checks, dispatch, faults>>

\* storeLedger, also of a ledger we are acquiring; then the commit may fail, and
\* consensusBuilt is not called.
StoreBuilt(fails) ==
  /\ built.at = "building"
  /\ fails => faults < MaxFaults
  /\ have' = have \cup {built.ledger}
  /\ built' = IF fails THEN [at |-> "idle", ledger |-> None] ELSE [built EXCEPT !.at = "stored"]
  /\ faults' = IF fails THEN faults + 1 ELSE faults
  /\ UNCHANGED <<setVars, acceptVars, advanceVars, pubVars, acquiring, failed,
                 mBuildingLedgerSeq, mCompleteLedgers, checks, dispatch, builds>>

\* consensusBuilt: the ledger itself
ConsensusBuilt ==
  /\ built.at = "stored"
  /\ mBuildingLedgerSeq' = 0
  /\ CheckLedger(built.ledger)
  /\ built' = IF SeqNo[built.ledger] <= ValidSeq \/ Acceptable(built.ledger)
              THEN [at |-> "idle", ledger |-> None]
              ELSE [built EXCEPT !.at = "count"]
  /\ UNCHANGED <<setVars, acquireVars, pubVars, mCompleteLedgers, checks, dispatch, builds,
                 faults>>

\* Ledgers that the validators in S, the ones whose current validation has not
\* expired, back with more than the needed number of validations.
SavedUp(S) ==
  {l \in Ledgers :
     SeqNo[l] > ValidSeq /\ Cardinality({v \in Current(S) : v.ledger = l}) > Needed}

\* ... else one we saved up validations for
CheckSavedUp(S) ==
  /\ built.at = "count"
  /\ built' = [at |-> "idle", ledger |-> None]
  /\ mCurrentValidations' =
       [n \in Nodes |-> IF n \in S THEN mCurrentValidations[n] ELSE None]
  /\ IF SavedUp(S) = {}
     THEN UNCHANGED <<acceptVars, advanceVars, acquireVars>>
     ELSE \E l \in SavedUp(S) :
            /\ \A k \in SavedUp(S) : SeqNo[k] <= SeqNo[l]
            /\ CheckHash(l)
  /\ UNCHANGED <<mValidations, pubVars, mBuildingLedgerSeq, mCompleteLedgers, checks, dispatch,
                 builds, faults>>

----
(* Acquiring ledgers: InboundLedger::done and its LADispatch job. *)

AcquireDone(l) ==
  /\ l \in acquiring
  /\ acquiring' = acquiring \ {l} /\ have' = have \cup {l}
  /\ dispatch' = dispatch \cup {l}
  /\ UNCHANGED <<setVars, acceptVars, advanceVars, pubVars, failed, mBuildingLedgerSeq,
                 mCompleteLedgers, checks, built, builds, faults>>

AcquireFails(l) ==
  /\ l \in acquiring /\ faults < MaxFaults /\ faults' = faults + 1
  /\ acquiring' = acquiring \ {l} /\ failed' = failed \cup {l}
  /\ UNCHANGED <<setVars, acceptVars, advanceVars, pubVars, have, mBuildingLedgerSeq,
                 mCompleteLedgers, checks, dispatch, built, builds>>

LADispatch(l) ==
  /\ l \in dispatch /\ dispatch' = dispatch \ {l}
  /\ IF Acceptable(l) THEN Accept(l) ELSE TryAdvance(mValidLedger) /\ UNCHANGED acceptVars
  /\ UNCHANGED <<setVars, acquireVars, pubVars, mBuildingLedgerSeq, mCompleteLedgers, checks,
                 built, builds, faults>>

----
(* The advance thread: doAdvance.  It holds m_mutex at "queued" and "end" and *)
(* runs without it at the other places.                                      *)

restVars == <<setVars, mLastValidateHash, mBuildingLedgerSeq, checks, dispatch, built, builds>>

\* RangeSet::prevMissing
PrevMissing(s) == Max({n \in 0 .. s - 1 : n \notin mCompleteLedgers})

\* advanceThread returns
ThreadEnds == advance' = "none" /\ mAdvanceThread' = FALSE

\* Mutant: off by one
NearlyTooFar == ValidSeq >= PubSeq + MaxLedgerGap
TooFar == ValidSeq > PubSeq + MaxLedgerGap

\* The top of the loop, to the first place where the lock is given up: publish
\* the valid ledger alone, look for the ledgers up to it, look into the history
\* (unless the server is busy), or leave.
Loop ==
  /\ mAdvanceWork' = FALSE
  /\ IF TooFar
     THEN /\ mPubLedger' = mValidLedger /\ pubLedgers' = <<mValidLedger>>
          /\ advance' = "publish" /\ UNCHANGED mAdvanceThread
     ELSE IF ValidSeq > PubSeq
     THEN /\ pubLedgers' = <<mValidLedger>> /\ advance' = "find"
          /\ UNCHANGED <<mPubLedger, mAdvanceThread>>
     ELSE /\ UNCHANGED <<mPubLedger, pubLedgers>>
          /\ \/ PrevMissing(PubSeq) > 0 /\ advance' = "history" /\ UNCHANGED mAdvanceThread
             \/ ThreadEnds

StartAdvance ==
  /\ advance = "queued"
  /\ Loop
  /\ UNCHANGED <<restVars, mValidLedger, bySeq, acquireVars, mCompleteLedgers, stream,
                 published, faults>>

\* The end of the loop: again if somebody asked for it.
EndLoop ==
  /\ advance = "end"
  /\ IF mAdvanceWork THEN Loop
     ELSE /\ ThreadEnds
          /\ UNCHANGED <<mAdvanceWork, mPubLedger, pubLedgers>>
  /\ UNCHANGED <<restVars, mValidLedger, bySeq, acquireVars, mCompleteLedgers, stream,
                 published, faults>>

\* The unlocked part of findNewLedgersToPublish, for the valid ledger read
\* before: the ledgers we have that follow mPubLedger without a hole.  The first
\* three missing ones are acquired, from the start if that failed before.  The
\* loop is one step: have only grows, and a ledger found late is not the next one.
FindNewLedgersToPublish ==
  /\ advance = "find"
  /\ LET val == Head(pubLedgers)
         wanted == PubSeq + 1 .. SeqNo[val]
         missing == {s \in wanted : HashAt[val][s] \notin have \cup {val}}
         first == {HashAt[val][s] : s \in {t \in missing :
                                     Cardinality({u \in missing : u <= t}) < 4}}
         upto == IF missing = {} THEN SeqNo[val] ELSE Min(missing) - 1
     IN /\ acquiring' = acquiring \cup first /\ failed' = failed \ first
        /\ pubLedgers' = [i \in 1 .. upto - PubSeq |-> HashAt[val][PubSeq + i]]
        /\ advance' = IF upto = PubSeq THEN "end" ELSE "publish"
  /\ UNCHANGED <<restVars, mValidLedger, mPubLedger, bySeq, have, mAdvanceThread, mAdvanceWork,
                 mCompleteLedgers, stream, published, faults>>

\* Filling the history: the ledger before the last one known, or a request for it.
FillHistory ==
  /\ advance = "history"
  /\ LET missing == PrevMissing(PubSeq)
         next == bySeq[missing + 1]
     IN IF next = None
        THEN /\ mCompleteLedgers' = mCompleteLedgers \ {missing + 1}
             /\ mAdvanceWork' = TRUE /\ advance' = "end"
             /\ UNCHANGED <<pubLedgers, acquiring>>
        ELSE IF Parent[next] \in have
        THEN /\ pubLedgers' = <<Parent[next]>> /\ advance' = "fill"
             /\ UNCHANGED <<mCompleteLedgers, mAdvanceWork, acquiring>>
        ELSE /\ FindCreate({HashAt[next][s] : s \in Max({1, missing + 1 - LedgerFetch}) .. missing})
             /\ mAdvanceWork' = (mAdvanceWork \/ ValidSeq # PubSeq) /\ advance' = "end"
             /\ UNCHANGED <<mCompleteLedgers, pubLedgers>>
  /\ UNCHANGED <<restVars, mValidLedger, mPubLedger, bySeq, have, failed, mAdvanceThread, stream,
                 published, faults>>

\* setFullLedger up to the mark in mCompleteLedgers
SetFullLedger ==
  /\ advance \in {"publish", "fill"}
  /\ LET l == Head(pubLedgers)
     IN /\ have' = have \cup {l}
        /\ bySeq' = [bySeq EXCEPT ![SeqNo[l]] = l]
        /\ mCompleteLedgers' = mCompleteLedgers \cup {SeqNo[l]}
  /\ advance' = IF advance = "publish" THEN "check" ELSE "checkfill"
  /\ UNCHANGED <<restVars, mValidLedger, mPubLedger, acquiring, failed, mAdvanceThread,
                 mAdvanceWork, pubVars, faults>>

\* Mutant: starts one too low.
MismatchedBelow(l) ==
  LET meets == {s \in mCompleteLedgers : s < SeqNo[l] /\ bySeq[s] = HashAt[l][s]}
  IN {s \in mCompleteLedgers : s < SeqNo[l] - 1 /\ \A t \in meets : t < s}

\* fixMismatch: sequences below l that are dropped, down to where the chains meet
Mismatched(l) ==
  LET meets == {s \in mCompleteLedgers : s < SeqNo[l] /\ bySeq[s] = HashAt[l][s]}
  IN {s \in mCompleteLedgers : s < SeqNo[l] /\ \A t \in meets : t < s}

\* The rest of setFullLedger, under the lock: the ledger before this one must be
\* its parent.  The ledger is never above the valid one, and mPubLedger is set, so
\* that neither changes here.
CheckPrevious ==
  /\ advance \in {"check", "checkfill"}
  /\ LET l == Head(pubLedgers)
         s == SeqNo[l] - 1
     IN mCompleteLedgers' = IF s \in mCompleteLedgers /\ bySeq[s] # Parent[l]
                            THEN mCompleteLedgers \ Mismatched(l)
                            ELSE mCompleteLedgers
  /\ IF advance = "check"
     THEN advance' = "publishing" /\ UNCHANGED mAdvanceWork
     ELSE advance' = "end" /\ mAdvanceWork' = TRUE
  /\ UNCHANGED <<restVars, acceptVars, acquireVars, mAdvanceThread, pubVars, faults>>

\* pubLedger and, with the lock, setPubLedger
PubLedger ==
  /\ advance = "publishing"
  /\ LET l == Head(pubLedgers)
     IN stream' = l /\ published' = published \cup {l} /\ mPubLedger' = l
  /\ pubLedgers' = Tail(pubLedgers)
  /\ IF Len(pubLedgers) > 1 THEN advance' = "publish" /\ UNCHANGED mAdvanceWork
     ELSE advance' = "end" /\ mAdvanceWork' = TRUE
  /\ UNCHANGED <<restVars, mValidLedger, bySeq, acquireVars, mAdvanceThread, mCompleteLedgers,
                 faults>>

\* An exception from saving the ledger or telling the clients ends the thread.
AdvanceThrows ==
  /\ advance \in {"publish", "fill", "publishing"} /\ faults < MaxFaults /\ faults' = faults + 1
  /\ ThreadEnds /\ pubLedgers' = <<>>
  /\ IF advance # "publishing"
     THEN LET l == Head(pubLedgers)
          IN have' = have \cup {l} /\ bySeq' = [bySeq EXCEPT ![SeqNo[l]] = l]
     ELSE UNCHANGED <<have, bySeq>>
  /\ UNCHANGED <<restVars, mValidLedger, mPubLedger, acquiring, failed, mAdvanceWork,
                 mCompleteLedgers, stream, published>>

Advance ==
  \/ StartAdvance \/ EndLoop \/ FindNewLedgersToPublish \/ FillHistory
  \/ SetFullLedger \/ CheckPrevious \/ PubLedger

Next ==
  \/ \E v \in AllValidations : AddValidation(v)
  \/ \E l \in Ledgers :
       \/ CheckAccept(l) \/ SwitchLedgers(l) \/ StartBuilding(l)
       \/ AcquireDone(l) \/ AcquireFails(l) \/ LADispatch(l)
  \/ \E fails \in BOOLEAN : StoreBuilt(fails)
  \/ ConsensusBuilt
  \/ \E S \in SUBSET Nodes : CheckSavedUp(S)
  \/ Advance \/ AdvanceThrows

Spec == Init /\ [][Next]_vars

\* Jobs run, the advance thread goes on, and an inbound ledger is completed
\* unless it fails.
FairSpec ==
  /\ Spec
  /\ WF_vars(Advance)
  /\ \A l \in Ledgers : WF_vars(CheckAccept(l)) /\ WF_vars(AcquireDone(l)) /\ WF_vars(LADispatch(l))

----
(* Properties. *)

\* Clients see the validated ledgers one after the other, each once, and skip
\* some only when the server is more than MAX_LEDGER_GAP behind.
PublishedInOrder ==
  [][stream' # stream =>
       \/ stream = None
       \/ SeqNo[stream'] = SeqNo[stream] + 1
       \/ SeqNo[stream'] > SeqNo[stream] + MaxLedgerGap]_vars

\* Ledgers with a quorum of validations.
Backed == {l \in Ledgers : TrustedCount(l) >= MinValidations}

\* l is such a ledger, or the one we started from, or an ancestor of one of these.
Rooted(l) ==
  \E b \in Backed \cup {Start} : SeqNo[l] <= SeqNo[b] /\ HashAt[b][SeqNo[l]] = l

\* Whatever is published, or held as part of the validated history, goes back to a
\* ledger with a quorum of validations, or to the ledger we started from.
PublishedIsBacked ==
  /\ \A l \in published : Rooted(l)
  /\ \A s \in mCompleteLedgers : Rooted(bySeq[s])

\* Neighbours in mCompleteLedgers are parent and child, except while
\* setFullLedger is between its mark and its check, and after at most one fault.
\* Two exceptions can break the chain: the first leaves a ledger marked but not
\* published, the second comes when setFullLedger has replaced it by one of
\* another branch and not checked it.
CompleteIsChain ==
  faults <= 1 /\ advance \notin {"check", "checkfill"} =>
    \A s \in mCompleteLedgers :
      bySeq[s] # None /\ (s + 1 \in mCompleteLedgers => bySeq[s] = Parent[bySeq[s + 1]])

\* Publishing catches up with validation: without a fault, the last validated
\* ledger is published in the end.
PubCatchesUp == []<>(PubSeq = ValidSeq \/ faults > 0)
====

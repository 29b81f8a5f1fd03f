-------------------------- MODULE LedgerConsensus ---------------------------
(***************************************************************************)
(* One consensus round of one node: LedgerConsensusImp of                   *)
(* consensus/LedgerConsensus.cpp, from its construction to endConsensus.    *)
(* The peers, the validations that move the network's view, the acquisition *)
(* of ledgers and transaction sets, and the clock are the environment.      *)
(*                                                                          *)
(* The hash of a transaction set stands for the set, so a position is a set *)
(* of transactions.  The handlers run under the master lock.  A timer entry *)
(* that replays stored proposals takes several steps here (pc); no other    *)
(* handler runs before it is over.                                          *)
(***************************************************************************)
EXTENDS DisputedTx

CONSTANTS
  Tx,              \* the transactions
  Peers,           \* the trusted peers
  Validators,      \* whose current validations are counted by checkLCL
  Ledgers,         \* hashes of closed ledgers
  Sets,            \* the transaction sets peers propose, a subset of SUBSET Tx
  CloseTimes,      \* close times (seconds) that are proposed
  Resolution,      \* Resolution[l]: close resolution of a round that builds on l
  TargetProposers, \* mTargetProposers, at least 1
  PrevMs,          \* mPreviousMSeconds
  Instants,        \* the values of mCurrentMSeconds that are looked at
  VoteTx,          \* fee and amendment transactions, added after a flag ledger
  FlagLedgers,     \* ledgers whose sequence number is a multiple of 256
  LogInfo,         \* TRUE: messages of level INFO are logged
  MaxSeq,          \* bound on the sequence number of a proposal
  MaxProposals,    \* bound on the proposals received
  MaxViewChanges,  \* bound on the validations received
  Unreliable,      \* TRUE: acquisitions and the final accept may fail
  NoDispute        \* a transaction that is not in mDisputes

NoLedger == "no ledger"
Leave == MaxSeq + 1          \* seqLeave, larger than every other number
NoPosition == [prev |-> NoLedger, seq |-> 0, set |-> {}, ct |-> 0]

AllSets == SUBSET (Tx \cup VoteTx)
Proposals == [prev : Ledgers, seq : 0..Leave, set : Sets, ct : CloseTimes]
States == {"PRE_CLOSE", "INITIAL_POSITION", "ESTABLISH", "FINISHED",
           "BUILT_LEDGER", "ENDED"}

ASSUME LedgersAssumption == NoLedger \notin Ledgers
ASSUME SetsAssumption == Sets \subseteq AllSets
ASSUME PeersAssumption == IsFiniteSet(Peers)
ASSUME TargetAssumption == TargetProposers \in Nat \ {0}
ASSUME TimeAssumption == /\ PrevMs \in Nat \ {0}
                         /\ Instants \subseteq Nat /\ 0 \in Instants
                         /\ CloseTimes \subseteq Nat
ASSUME ResolutionAssumption == Resolution \in [Ledgers -> Nat \ {0}]
ASSUME NoDisputeAssumption == NoDispute \notin Dispute(Peers)
ASSUME MaxSeqAssumption == MaxSeq \in Nat

VARIABLES
  state,        \* mState; lcsACCEPTED, left in the same timer entry, is "ENDED"
  pc,           \* "idle", or what is left of a timer entry: "playback", "switch", "state"
  prevHash,     \* mPrevLedgerHash, the last closed ledger we should build on
  prevLedger,   \* mPreviousLedger, the one we have
  haveLCL,      \* mHaveCorrectLCL
  lclAcquiring, \* mAcquiringLedger
  proposing,    \* mProposing
  our,          \* mOurPosition
  positions,    \* mPeerPositions
  dead,         \* mDeadNodes
  acquired,     \* mAcquired: "none", "have" or "failed" (a null map)
  acquiring,    \* mAcquiring
  disputes,     \* mDisputes
  compares,     \* mCompares
  haveCT,       \* mHaveCloseTimeConsensus
  elapsed,      \* milliseconds since mConsensusStartTime
  built,        \* the ledger accept() has built
  acceptJob,    \* the jtACCEPT job: "none", "queued" or "done"
  sent,         \* the proposals we have broadcast
  crashed,      \* a null map was used, or abort() was called
  open,         \* the transactions of the open ledger
  openParent,   \* the parent of the open ledger
  haveLedgers,  \* the ledgers getLedgerByHash finds
  validation,   \* the current validation of each validator
  stored,       \* NetworkOPs::mStoredProposals
  replay,       \* what is left of the loops of playbackProposals
  doneJobs,     \* completeAcquire jobs: "none", "ok" or "failed" of each set
  views         \* how many validations have been received

lclVars == <<prevHash, prevLedger, haveLCL, lclAcquiring>>
setVars == <<acquired, acquiring, compares, disputes>>
peerVars == <<positions, dead>>
ourVars == <<our, proposing, sent>>
envVars == <<open, openParent, haveLedgers, validation, views>>
endVars == <<built, acceptJob>>
vars == <<state, pc, lclVars, peerVars, setVars, ourVars, haveCT, elapsed, endVars,
          crashed, envVars, stored, replay, doneJobs>>

Alive == ~crashed /\ state # "ENDED"
HasPosition(p) == positions[p] # NoPosition
Present == {p \in Peers : HasPosition(p)}

----------------------------------------------------------------------------
(* Construction *)

\* The constructor.  NetworkOPs gives it the network's last closed ledger h
\* and the one we have, l; handleLCL adopts h if it is at hand.  A node whose ledger is not
\* the network's is not in mode omFULL, so it does not propose.
Init ==
  /\ state = "PRE_CLOSE" /\ pc = "idle"
  /\ haveLedgers \in {H \in SUBSET Ledgers : H # {}}
  /\ \E l \in haveLedgers :
       /\ prevHash \in Ledgers
       /\ prevLedger = IF prevHash \in haveLedgers THEN prevHash ELSE l
       /\ haveLCL = (prevHash \in haveLedgers)
       /\ lclAcquiring = IF haveLCL THEN NoLedger ELSE prevHash
       /\ openParent = l
       /\ proposing \in {b \in BOOLEAN : b => prevHash = l}
  /\ our = NoPosition
  /\ positions = [p \in Peers |-> NoPosition] /\ dead = {}
  /\ acquired = [s \in AllSets |-> "none"] /\ acquiring = {}
  /\ disputes = [t \in Tx \cup VoteTx |-> NoDispute] /\ compares = {}
  /\ haveCT = FALSE /\ elapsed = 0
  /\ built = NoPosition /\ acceptJob = "none"
  /\ sent = {} /\ crashed = FALSE
  /\ open \in Sets /\ open \subseteq Tx
  /\ validation = [v \in Validators |-> prevHash] /\ views = 0
  /\ stored = [p \in Peers |-> <<>>] /\ replay = [p \in Peers |-> <<>>]
  /\ doneJobs = [s \in AllSets |-> "none"]

----------------------------------------------------------------------------
(* Disputes *)

Disputed(d) == {t \in DOMAIN d : d[t] # NoDispute}
Holders(pos, s) == {p \in Peers : pos[p] # NoPosition /\ pos[p].set = s}

\* adjustCount: every peer of P votes on every dispute as the set s says.
AdjustCount(d, s, P) ==
  [t \in DOMAIN d |-> IF d[t] = NoDispute THEN NoDispute ELSE SetVotes(d[t], P, t \in s)]

\* The peers whose set we hold, and those whose set has transaction t.
Known(acq, pos) == {p \in Peers : pos[p] # NoPosition /\ acq[pos[p].set] = "have"}
With(acq, pos, t) == {p \in Known(acq, pos) : t \in pos[p].set}

\* addDisputedTransaction, for a transaction that is not disputed yet.
AddDisputed(acq, pos, ours, t) ==
  SetVotes(SetVotes(NewDispute(t \in ours), With(acq, pos, t), TRUE),
           Known(acq, pos) \ With(acq, pos, t), FALSE)

\* createDisputes of our set with each of the sets of S.
CreateDisputes(d, acq, pos, ours, S) ==
  [t \in DOMAIN d |->
     IF d[t] = NoDispute /\ \E s \in S : (t \in ours) # (t \in s)
       THEN AddDisputed(acq, pos, ours, t)
       ELSE d[t]]

\* mapComplete with a good map for s while the peer positions are pos.  A new
\* set is compared with our position, unless we have none or bowed out; that
\* needs the map of our own position.
CompareNow(s) == acquired[s] # "have" /\ our # NoPosition /\ our.seq # Leave /\ s # our.set

MapCompleteNoAdjust(s, pos) ==
  /\ acquiring' = acquiring \ {s}
  /\ acquired' = [acquired EXCEPT ![s] = "have"]
  /\ crashed' = (CompareNow(s) /\ acquired[our.set] # "have")
  /\ compares' = IF CompareNow(s) THEN compares \cup {s} ELSE compares
  /\ disputes' = IF CompareNow(s)
                   THEN CreateDisputes(disputes, acquired, pos, our.set, {s})
                   ELSE disputes
MapComplete(s, pos) ==
  /\ acquiring' = acquiring \ {s}
  /\ acquired' = [acquired EXCEPT ![s] = "have"]
  /\ crashed' = (CompareNow(s) /\ acquired[our.set] # "have")
  /\ compares' = IF CompareNow(s) THEN compares \cup {s} ELSE compares
  /\ disputes' =
       IF acquired[s] = "have" THEN disputes
       ELSE AdjustCount(IF CompareNow(s)
                          THEN CreateDisputes(disputes, acquired, pos, our.set, {s})
                          ELSE disputes,
                        s, Holders(pos, s))

----------------------------------------------------------------------------
(* Proposals of the peers *)

\* getTransactionTree, then the votes of peer p, whose set is s now.
TakeSet(p, s, pos) ==
  \/ /\ acquired[s] = "have"
     /\ disputes' = AdjustCount(disputes, s, {p})
     /\ UNCHANGED <<acquired, acquiring, compares, crashed>>
  \/ /\ acquired[s] = "failed"
     /\ UNCHANGED <<setVars, crashed>>
  \/ /\ acquired[s] = "none"
     /\ s = {} \/ (state = "PRE_CLOSE" /\ s = open)
     /\ MapComplete(s, pos)
  \/ /\ acquired[s] = "none"
     /\ s # {} /\ ~(state = "PRE_CLOSE" /\ s = open)
     /\ acquiring' = acquiring \cup {s}
     /\ UNCHANGED <<acquired, compares, disputes, crashed>>

Obsolete(p, n) == p \in dead \/ (HasPosition(p) /\ n.seq <= positions[p].seq)

\* peerPosition.
PeerLeavesSilently(p) ==
  /\ positions' = [positions EXCEPT ![p] = NoPosition]
  /\ dead' = dead \cup {p}
  /\ UNCHANGED <<setVars, crashed>>
PeerLeaves(p) ==
  /\ positions' = [positions EXCEPT ![p] = NoPosition]
  /\ dead' = dead \cup {p}
  /\ disputes' = [t \in DOMAIN disputes |-> IF disputes[t] = NoDispute THEN NoDispute
                                            ELSE UnVotes(disputes[t], {p})]
  /\ UNCHANGED <<acquired, acquiring, compares, crashed>>

PeerPosition(p, n) ==
  \/ Obsolete(p, n) /\ UNCHANGED <<peerVars, setVars, crashed>>
  \/ ~Obsolete(p, n) /\ n.seq = Leave /\ PeerLeaves(p)
  \/ /\ ~Obsolete(p, n) /\ n.seq # Leave
     /\ positions' = [positions EXCEPT ![p] = n]
     /\ TakeSet(p, n.set, [positions EXCEPT ![p] = n])
     /\ UNCHANGED dead

Received == UNION {{p} \X DOMAIN stored[p] : p \in Peers}

\* NetworkOPs::processTrustedProposal: the proposal is stored, and applied if
\* it is for our ledger.  The hash router lets each proposal in once.
ReceiveProposal(p, n) ==
  /\ Alive /\ pc = "idle"
  /\ Cardinality(Received) < MaxProposals
  /\ n \notin Range(stored[p])
  /\ stored' = [stored EXCEPT ![p] = Append(@, n)]
  /\ IF n.prev = prevHash THEN PeerPosition(p, n) ELSE UNCHANGED <<peerVars, setVars, crashed>>
  /\ UNCHANGED <<state, pc, lclVars, ourVars, haveCT, elapsed, endVars, envVars,
                 replay, doneJobs>>

----------------------------------------------------------------------------
(* Acquisition of transaction sets: TransactionAcquire *)

StillNeedTXSet(s) == acquired[s] = "none" /\ Holders(positions, s) # {}

\* TransactionAcquire::done queues a job, for a set that arrived or for one
\* that ten timeouts did not bring and that stillNeedTXSet no longer wants.
AcquireDone(s, result) ==
  /\ Alive /\ pc = "idle" /\ s \in acquiring /\ doneJobs[s] = "none"
  /\ result = "failed" => Unreliable /\ ~StillNeedTXSet(s)
  /\ doneJobs' = [doneJobs EXCEPT ![s] = result]
  /\ UNCHANGED <<state, pc, lclVars, peerVars, setVars, ourVars, haveCT, elapsed,
                 endVars, crashed, envVars, stored, replay>>

\* TACompletionHandler: mapComplete, with a null map after a failure.
AcquireFailed(s) ==
  /\ acquired' = [acquired EXCEPT ![s] = "failed"]
  /\ acquiring' = acquiring \ {s}
  /\ UNCHANGED <<compares, disputes, crashed>>

CompleteAcquire(s) ==
  /\ Alive /\ pc = "idle" /\ doneJobs[s] # "none"
  /\ IF doneJobs[s] = "ok" THEN MapComplete(s, positions) ELSE AcquireFailed(s)
  /\ doneJobs' = [doneJobs EXCEPT ![s] = "none"]
  /\ UNCHANGED <<state, pc, lclVars, peerVars, ourVars, haveCT, elapsed, endVars,
                 envVars, stored, replay>>

----------------------------------------------------------------------------
(* The last closed ledger: checkLCL, handleLCL, playbackProposals *)

EarlyOrFinished == state \in {"PRE_CLOSE", "INITIAL_POSITION", "ESTABLISH", "FINISHED"}
Early == state \in {"PRE_CLOSE", "INITIAL_POSITION", "ESTABLISH"}
ValCount(l) == Cardinality({v \in Validators : validation[v] = l})

\* What the loop of checkLCL can pick: a ledger with the most validations,
\* ours if it is one of them.
NetLedgers ==
  LET best == {l \in Ledgers : \A k \in Ledgers : ValCount(k) <= ValCount(l)}
  IN  IF prevHash \in best THEN {prevHash} ELSE best

\* handleLCL, the first time we switch to ledger l.
ClearRoundKeepsPositions ==
  /\ dead' = {}
  /\ disputes' = [t \in DOMAIN disputes |-> NoDispute]
  /\ UNCHANGED positions
ClearRound ==
  /\ positions' = [p \in Peers |-> NoPosition]
  /\ dead' = {}
  /\ disputes' = [t \in DOMAIN disputes |-> NoDispute]

BowsOut == haveLCL /\ proposing /\ our # NoPosition
BowOutKeepsProposing ==
  /\ sent' = IF BowsOut THEN sent \cup {[our EXCEPT !.seq = Leave]} ELSE sent
  /\ UNCHANGED <<our, proposing>>
BowOut ==
  /\ proposing' = FALSE
  /\ our' = IF BowsOut THEN [our EXCEPT !.seq = Leave] ELSE our
  /\ sent' = IF BowsOut THEN sent \cup {our'} ELSE sent

ChangeLCL(l) ==
  /\ prevHash' = l
  /\ BowOut
  /\ ClearRound
  /\ replay' = stored
  /\ pc' = "playback"
  /\ UNCHANGED <<prevLedger, haveLCL, lclAcquiring, acquired, acquiring, compares>>

\* timerEntry: checkLCL runs first in the states that precede FINISHED.
TimerCheckLCL ==
  /\ Alive /\ pc = "idle" /\ Early
  /\ \E l \in NetLedgers :
       \/ l # prevHash /\ ChangeLCL(l)
       \/ /\ l = prevHash
          /\ pc' = IF prevLedger # prevHash THEN "switch" ELSE "state"
          /\ UNCHANGED <<lclVars, peerVars, setVars, ourVars, replay>>
  /\ UNCHANGED <<state, haveCT, elapsed, endVars, crashed, envVars, stored, doneJobs>>

\* One turn of playbackProposals, and the end of its loops: one peer after the
\* other, in any order, and of each the proposals for our ledger.
PlaybackStep(p) ==
  /\ Alive /\ pc = "playback" /\ replay[p] # <<>>
  /\ \A q \in Peers \ {p} : replay[q] \in {<<>>, stored[q]}
  /\ IF Head(replay[p]).prev = prevHash
       THEN PeerPosition(p, Head(replay[p]))
       ELSE UNCHANGED <<peerVars, setVars, crashed>>
  /\ replay' = [replay EXCEPT ![p] = Tail(@)]
  /\ UNCHANGED <<state, pc, lclVars, ourVars, haveCT, elapsed, endVars, envVars,
                 stored, doneJobs>>

PlaybackEnds ==
  /\ Alive /\ pc = "playback" /\ \A p \in Peers : replay[p] = <<>>
  /\ pc' = "switch"
  /\ UNCHANGED <<state, lclVars, peerVars, setVars, ourVars, haveCT, elapsed, endVars,
                 crashed, envVars, stored, replay, doneJobs>>

\* The rest of handleLCL: adopt the ledger if we have it, or ask for it.
SwitchLedger ==
  /\ Alive /\ pc = "switch"
  /\ \/ prevLedger = prevHash /\ UNCHANGED lclVars
     \/ /\ prevLedger # prevHash /\ prevHash \in haveLedgers
        /\ prevLedger' = prevHash
        /\ haveLCL' = TRUE
        /\ UNCHANGED <<prevHash, lclAcquiring>>
     \/ /\ prevLedger # prevHash /\ prevHash \notin haveLedgers
        /\ lclAcquiring' = prevHash
        /\ haveLCL' = IF lclAcquiring = prevHash THEN haveLCL ELSE FALSE
        /\ UNCHANGED <<prevHash, prevLedger>>
  /\ pc' = "state"
  /\ UNCHANGED <<state, peerVars, setVars, ourVars, haveCT, elapsed, endVars, crashed,
                 envVars, stored, replay, doneJobs>>

----------------------------------------------------------------------------
(* The handlers of the states *)

\* takeInitialPosition, with the open ledger's transactions and the close time
\* ct.  After a flag ledger a proposer adds the fee and amendment votes.  Looking
\* up the set of a peer finds a null map if its acquisition failed.
InitialSet(txs) ==
  txs \cup (IF proposing /\ haveLCL /\ prevLedger \in FlagLedgers THEN VoteTx ELSE {})

TakeInitialPosition(txs, ct) ==
  LET initialSet == InitialSet(txs)
      acq == [acquired EXCEPT ![initialSet] = "have"]
      theirs == {positions[p].set : p \in Present}
      found == {s \in theirs : acq[s] = "have"}
  IN  /\ our' = [prev |-> openParent, seq |-> 0, set |-> initialSet, ct |-> ct]
      /\ acquired' = acq
      /\ acquiring' = acquiring \ {initialSet}
      /\ compares' = compares \cup found
      /\ disputes' = CreateDisputes(disputes, acq, positions, initialSet, found)
      /\ crashed' = \E s \in theirs : acq[s] = "failed"

\* statePreClose and closeLedger.  applyHeldTransactions may add some of the
\* held transactions to the open ledger first.
StatePreClose ==
  /\ Alive /\ pc = "state" /\ state = "PRE_CLOSE"
  /\ \E idle \in BOOLEAN :
       IF haveLCL /\ ShouldClose(open # {}, TargetProposers, Cardinality(Present),
                                 elapsed, idle)
         THEN /\ state' = "INITIAL_POSITION"
              /\ elapsed' = 0
              /\ open' \in {txs \in Sets : open \subseteq txs /\ txs \subseteq Tx}
              /\ \E ct \in CloseTimes \ {0} : TakeInitialPosition(open', ct)
         ELSE UNCHANGED <<state, elapsed, open, our, setVars, crashed>>
  /\ pc' = "idle"
  /\ UNCHANGED <<lclVars, peerVars, proposing, sent, haveCT, endVars, openParent,
                 haveLedgers, validation, views, stored, replay, doneJobs>>

\* stateInitialPosition; the timer entry goes on with stateEstablish.
StateInitialPosition ==
  /\ Alive /\ pc = "state" /\ state = "INITIAL_POSITION"
  /\ sent' = IF proposing THEN sent \cup {our} ELSE sent
  /\ IF /\ Cardinality(Present) + 1 >= TargetProposers
        /\ elapsed > LEDGER_MIN_CONSENSUS_TIME
       THEN state' = "ESTABLISH" /\ UNCHANGED pc
       ELSE pc' = "idle" /\ UNCHANGED state
  /\ UNCHANGED <<lclVars, peerVars, setVars, our, proposing, haveCT, elapsed, endVars,
                 crashed, envVars, stored, replay, doneJobs>>

ClosePercent == (elapsed * 100) \div PrevMs
Round(ct) == RoundCloseTime(ct, Resolution[prevLedger])

\* How many participants are behind each rounded close time.
CloseTimeCounts(pos) ==
  [t \in {Round(ct) : ct \in CloseTimes \cup {0}} |->
     Cardinality({p \in Peers : pos[p] # NoPosition /\ Round(pos[p].ct) = t})
       + (IF proposing /\ Round(our.ct) = t THEN 1 ELSE 0)]

CloseTimeOf(pos) ==
  LET n == Cardinality({p \in Peers : pos[p] # NoPosition})
  IN  IF n = 0 THEN [closeTime |-> Round(our.ct), consensus |-> TRUE]
      ELSE CloseTimeVote(CloseTimeCounts(pos), n + (IF proposing THEN 1 ELSE 0),
                         ClosePercent)

\* LedgerProposal::changePosition, refused after a bow-out.
ChangePositionSameSeq(set, ct) == [our EXCEPT !.set = set, !.ct = ct]
ChangePosition(set, ct) == [our EXCEPT !.seq = @ + 1, !.set = set, !.ct = ct]

\* Our set after our votes on the transactions of changed became those of voted.
RevisedSetOnlyAdds(changed, voted) == our.set \cup {t \in changed : voted[t].ourVote}
RevisedSet(changed, voted) == (our.set \ changed) \cup {t \in changed : voted[t].ourVote}

\* updateOurPositions: the positions and the disputes once the proposals of the
\* peers in stale are dropped and our votes are reconsidered, ...
Fresh(stale) == [p \in Peers |-> IF p \in stale THEN NoPosition ELSE positions[p]]
Revote(stale) ==
  [t \in DOMAIN disputes |->
     IF disputes[t] = NoDispute THEN NoDispute
     ELSE UpdateVote(UnVotes(disputes[t], stale), ClosePercent, proposing)]

\* ... and what it leaves behind, given whether our proposal is stale too.
UpdateOurPositions(pos, voted, time, ourStale) ==
  LET changed == {t \in Disputed(disputes) : voted[t].ourVote # disputes[t].ourVote}
      set == RevisedSet(changed, voted)
      changes == changed # {} \/ time.closeTime # Round(our.ct) \/ ourStale
      moves == changes /\ our.seq # Leave
  IN  [pos |-> pos,
       our |-> IF moves THEN ChangePosition(set, time.closeTime) ELSE our,
       sent |-> moves /\ proposing,
       acq |-> IF moves THEN [acquired EXCEPT ![set] = "have"] ELSE acquired,
       acquiring |-> IF moves THEN acquiring \ {set} ELSE acquiring,
       disputes |-> IF moves /\ acquired[set] # "have"
                      THEN AdjustCount(voted, set, Holders(pos, set)) ELSE voted,
       haveCT |-> time.consensus,
       null |-> changes /\ acquired[our.set] # "have"]

\* haveConsensus: the sets of disagreeing peers that were never compared with
\* ours are compared now.  CondLog evaluates its condition only when the
\* message would be logged, so without close time consensus this happens
\* depending on the log level (LogInfo).
Uncompared(u) ==
  {s \in {u.pos[p].set : p \in {q \in Peers : u.pos[q] # NoPosition}} :
     s # u.our.set /\ s \notin compares /\ u.acq[s] = "have" /\ u.acq[u.our.set] = "have"}

Agrees(u) ==
  LET present == {p \in Peers : u.pos[p] # NoPosition}
  IN  HaveConsensus(TargetProposers, Cardinality(present),
                    Cardinality({p \in present : u.pos[p].set = u.our.set}))

\* What is left of stateEstablish after updateOurPositions, beginAccept included.
CheckConsensus(u) ==
  LET fresh == IF u.haveCT \/ LogInfo THEN Uncompared(u) ELSE {}
      done == u.haveCT /\ Agrees(u)
  IN  /\ our' = u.our
      /\ positions' = u.pos
      /\ acquired' = u.acq
      /\ acquiring' = u.acquiring
      /\ compares' = compares \cup fresh
      /\ disputes' = CreateDisputes(u.disputes, u.acq, u.pos, u.our.set, fresh)
      /\ sent' = IF u.sent THEN sent \cup {u.our} ELSE sent
      /\ haveCT' = u.haveCT
      /\ state' = IF done THEN "FINISHED" ELSE state
      /\ acceptJob' = IF done THEN "queued" ELSE acceptJob
      /\ crashed' = (u.null \/ (done /\ u.acq[u.our.set] # "have"))

\* stateEstablish.  Bounds: our proposals stop at sequence number MaxSeq, and
\* only our first one is sent again because of its age.
StateEstablish ==
  /\ Alive /\ pc = "state" /\ state = "ESTABLISH"
  /\ \E stale \in SUBSET Present, ourStale \in {b \in BOOLEAN : b => our.seq = 0} :
     \E pos \in {Fresh(stale)}, voted \in {Revote(stale)} :
     \E u \in {UpdateOurPositions(pos, voted, CloseTimeOf(pos), ourStale)} :
       /\ u.our.seq # Leave \/ our.seq = Leave
       /\ CheckConsensus(u)
  /\ pc' = "idle"
  /\ UNCHANGED <<lclVars, dead, proposing, elapsed, built, envVars, stored, replay,
                 doneJobs>>

\* The timer in the later states.  stateFinished does nothing;
\* stateBuiltLedger waits, advertises the ledger and ends the round.
StateBuiltLedger ==
  /\ Alive /\ pc = "idle" /\ state = "BUILT_LEDGER"
  /\ elapsed >= LEDGER_MIN_ADVERTISE_TIME
  /\ state' = "ENDED"
  /\ UNCHANGED <<pc, lclVars, peerVars, setVars, ourVars, haveCT, elapsed, endVars,
                 crashed, envVars, stored, replay, doneJobs>>

\* accept, a job of its own.  It returns early, in state FINISHED, when the
\* SQL ledger is not in sync or cannot be committed.
Accept(ok) ==
  /\ Alive /\ pc = "idle" /\ acceptJob = "queued"
  /\ ok \/ Unreliable
  /\ acceptJob' = "done"
  /\ stored' = [p \in Peers |-> <<>>]
  /\ IF ok
       THEN /\ state' = "BUILT_LEDGER"
            /\ elapsed' = 0
            /\ built' = [prev |-> prevLedger, seq |-> 0, set |-> our.set, ct |-> Round(our.ct)]
       ELSE UNCHANGED <<state, elapsed, built>>
  /\ UNCHANGED <<pc, lclVars, peerVars, setVars, ourVars, haveCT, crashed, envVars, replay,
                 doneJobs>>

----------------------------------------------------------------------------
(* The environment *)

roundVars == <<state, pc, lclVars, peerVars, setVars, ourVars, haveCT, endVars, crashed,
               stored, replay, doneJobs>>

\* A transaction enters the open ledger.  The round reads it only in PRE_CLOSE.
OpenLedgerTx(t) ==
  /\ Alive /\ pc = "idle" /\ state = "PRE_CLOSE" /\ open \cup {t} \in Sets
  /\ open' = open \cup {t}
  /\ UNCHANGED <<roundVars, elapsed, openParent, haveLedgers, validation, views>>

\* InboundLedgers completes the ledger handleLCL asked for.
LedgerArrives ==
  /\ Alive /\ lclAcquiring \in Ledgers \ haveLedgers
  /\ haveLedgers' = haveLedgers \cup {lclAcquiring}
  /\ UNCHANGED <<roundVars, elapsed, open, openParent, validation, views>>

RecvValidation(v, l) ==
  /\ Alive /\ pc = "idle" /\ Early /\ views < MaxViewChanges /\ validation[v] # l
  /\ validation' = [validation EXCEPT ![v] = l]
  /\ views' = views + 1
  /\ UNCHANGED <<roundVars, elapsed, open, openParent, haveLedgers>>

Tick(i) ==
  /\ Alive /\ i > elapsed
  /\ elapsed' = i
  /\ UNCHANGED <<roundVars, envVars>>

Timer ==
  \/ TimerCheckLCL \/ PlaybackEnds \/ SwitchLedger
  \/ \E p \in Peers : PlaybackStep(p)
  \/ StatePreClose \/ StateInitialPosition \/ StateEstablish \/ StateBuiltLedger

Next ==
  \/ Timer
  \/ \E p \in Peers, n \in Proposals : ReceiveProposal(p, n)
  \/ \E s \in Sets, r \in {"ok", "failed"} : AcquireDone(s, r)
  \/ \E s \in Sets : CompleteAcquire(s)
  \/ \E ok \in BOOLEAN : Accept(ok)
  \/ \E t \in Tx : OpenLedgerTx(t)
  \/ LedgerArrives
  \/ \E v \in Validators, l \in Ledgers : RecvValidation(v, l)
  \/ \E i \in Instants : Tick(i)

Spec == Init /\ [][Next]_vars

\* The heartbeat fires every second, the clock advances, the accept job is run
\* and the ledger that handleLCL asked for arrives.
FairSpec ==
  /\ Spec
  /\ WF_vars(Timer)
  /\ WF_vars(\E i \in Instants : Tick(i))
  /\ WF_vars(\E ok \in BOOLEAN : Accept(ok))
  /\ WF_vars(LedgerArrives)

----------------------------------------------------------------------------
(* Properties *)

Positions == [prev : Ledgers, seq : 0..Leave, set : AllSets, ct : Nat]

\* The variables have their types.
TypeOK ==
  /\ state \in States
  /\ pc \in {"idle", "playback", "switch", "state"}
  /\ prevHash \in Ledgers /\ prevLedger \in Ledgers /\ openParent \in Ledgers
  /\ haveLCL \in BOOLEAN /\ lclAcquiring \in Ledgers \cup {NoLedger}
  /\ proposing \in BOOLEAN
  /\ our \in Positions \cup {NoPosition}
  /\ positions \in [Peers -> Proposals \cup {NoPosition}]
  /\ dead \subseteq Peers
  /\ acquired \in [AllSets -> {"none", "have", "failed"}]
  /\ acquiring \subseteq AllSets
  /\ disputes \in [Tx \cup VoteTx -> Dispute(Peers) \cup {NoDispute}]
  /\ compares \subseteq AllSets
  /\ haveCT \in BOOLEAN /\ elapsed \in Instants
  /\ built \in Positions \cup {NoPosition}
  /\ acceptJob \in {"none", "queued", "done"}
  /\ sent \subseteq Positions
  /\ crashed \in BOOLEAN
  /\ open \subseteq Tx
  /\ haveLedgers \subseteq Ledgers
  /\ validation \in [Validators -> Ledgers]
  /\ stored \in [Peers -> Seq(Proposals)] /\ replay \in [Peers -> Seq(Proposals)]
  /\ doneJobs \in [AllSets -> {"none", "ok", "failed"}]

\* The counts of every dispute are the votes of peers that take part: a peer
\* that bowed out, went stale or was dropped when the ledger changed leaves no
\* vote behind, and setVote and unVote never count one twice.
VotesArePeers ==
  \A t \in Disputed(disputes) :
    LET d == disputes[t]
    IN  /\ d.yays = Cardinality(d.yes) /\ d.nays = Cardinality(d.no)
        /\ d.yes \cap d.no = {}
        /\ d.yes \cup d.no \subseteq Present

\* Whenever we hold the set a peer proposes, that peer's vote on every
\* dispute is what its set says, in whatever order proposals, sets and
\* disputes came.
VotesFollowSets ==
  ~crashed => \A t \in Disputed(disputes) : \A p \in Known(acquired, positions) :
    p \in (IF t \in positions[p].set THEN disputes[t].yes ELSE disputes[t].no)

\* Our vote on a dispute and our position say the same, unless we bowed out.
OurVoteIsPosition ==
  our # NoPosition /\ our.seq # Leave =>
    \A t \in Disputed(disputes) : disputes[t].ourVote = (t \in our.set)

\* Positions are only of peers that build on the ledger we want to build on,
\* and a peer that bowed out has none.
PositionsMatchLedger ==
  \A p \in Present : positions[p].prev = prevHash /\ p \notin dead

\* A node proposes only on the ledger it builds on and has.
ProposesOnItsLedger ==
  proposing => /\ haveLCL /\ prevLedger = prevHash
               /\ (our # NoPosition => our.prev = prevLedger)

\* The proposals we broadcast never contradict each other: one sequence
\* number is used for one position only.
NoEquivocation ==
  \A a, b \in sent : a.seq = b.seq => a = b

\* Consensus locks the position in: from FINISHED on, neither our position
\* nor the ledger it applies to changes, and the ledger accept builds is the
\* agreed set on that ledger.
LockedIn ==
  [][(state \in {"FINISHED", "BUILT_LEDGER"}) =>
       /\ our' = our /\ prevLedger' = prevLedger
       /\ (built' # built => (built'.set = our.set /\ built'.prev = prevLedger))]_vars

\* After bowing out the node sends nothing more in this round.
SilentAfterBowOut ==
  [][(\E a \in sent : a.seq = Leave) => sent' = sent]_vars

\* An observer follows the network: if from some point on the peers, enough of
\* them, stand still on one set, which we hold, and on one close time, a node
\* that took a position without proposing gets to FINISHED.
PeersAgree(s) ==
  /\ Present # {} /\ Cardinality(Present) + 1 >= TargetProposers
  /\ \A p \in Present : positions[p].set = s
  /\ \A p, q \in Present : positions[p].ct = positions[q].ct
  /\ acquired[s] = "have" /\ our # NoPosition /\ ~proposing /\ Alive
ObserverFollows ==
  \A s \in Sets : <>[]PeersAgree(s) => <>(state \in {"FINISHED", "BUILT_LEDGER"})

\* The node always has the transaction set of its own position.
OwnSetHeld == our # NoPosition => acquired[our.set] = "have"

\* Computing the next ledger takes the round out of FINISHED.
FinishedIsLeft == state = "FINISHED" ~> (state # "FINISHED" \/ crashed)

\* A node that is on the network's ledger for good, with transactions in its
\* open ledger, closes it.
OnNetworkLedger == prevLedger = prevHash /\ NetLedgers = {prevHash}
PreCloseIsLeft == <>[]OnNetworkLedger /\ <>[](open # {}) => <>(state # "PRE_CLOSE" \/ crashed)
=============================================================================

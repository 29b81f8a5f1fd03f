----------------------------- MODULE CloseTime ------------------------------
(***************************************************************************)
(* The agreement of proposers on the close times of successive ledgers: the *)
(* close time part of LedgerConsensus::updateOurPositions and of accept,    *)
(* and the choice of the next resolution in the constructor.  Every node    *)
(* proposes and sees the current position of all others; message delay and  *)
(* the transaction sets are left to LedgerConsensus.                        *)
(***************************************************************************)
EXTENDS ClosePercent

CONSTANTS
  Nodes,     \* the participants, all of them proposing
  Clocks     \* the close times (seconds) nodes start a round with

ASSUME NodesAssumption == IsFiniteSet(Nodes) /\ Nodes # {}
ASSUME ClocksAssumption == Clocks \subseteq Nat

VARIABLES
  resolution,  \* mCloseResolution
  phase,       \* the sequence number of the ledger, modulo LEDGER_RES_INCREASE
  ct,          \* the close time of each node's position
  done         \* whether each node left ESTABLISH, with mHaveCloseTimeConsensus

vars == <<resolution, phase, ct, done, percent>>

Init ==
  /\ resolution = 30 /\ phase = 1     \* LEDGER_TIME_ACCURACY
  /\ ct \in [Nodes -> Clocks]
  /\ done = [n \in Nodes |-> FALSE]
  /\ percent = 0

Round(t) == RoundCloseTime(t, resolution)
Votes == [t \in {Round(ct[n]) : n \in Nodes} |-> Cardinality({n \in Nodes : Round(ct[n]) = t})]

\* updateOurPositions: a node moves to the close time it votes for, and is done
\* with the round if it also finds that the peers agree on the transactions.
UpdateKeepsTime(n, agreed) ==
  /\ ~done[n]
  /\ \E vote \in {CloseTimeVote(Votes, Cardinality(Nodes), percent)} :
       done' = [done EXCEPT ![n] = vote.consensus /\ agreed]
  /\ UNCHANGED <<resolution, phase, ct, percent>>
Update(n, agreed) ==
  /\ ~done[n]
  /\ \E votes \in {Votes} : \E vote \in {CloseTimeVote(votes, Cardinality(Nodes), percent)} :
       /\ ct' = [ct EXCEPT ![n] = vote.closeTime]
       /\ done' = [done EXCEPT ![n] = vote.consensus /\ agreed]
  /\ UNCHANGED <<resolution, phase, percent>>

Tick(p) ==
  /\ PercentGrows(p)
  /\ UNCHANGED <<resolution, phase, ct, done>>

\* accept, and the constructor of the next round: close time 0 is recorded as
\* no agreement.
NextLedger(n) ==
  /\ \A m \in Nodes : done[m]
  /\ phase' = (phase + 1) % LEDGER_RES_INCREASE
  /\ resolution' = NextResolution(resolution, Round(ct[n]) # 0, phase')
  /\ ct' \in [Nodes -> Clocks]
  /\ done' = [m \in Nodes |-> FALSE]
  /\ percent' = 0

Next ==
  \/ \E n \in Nodes, agreed \in BOOLEAN : Update(n, agreed)
  \/ \E p \in Percents : Tick(p)
  \/ \E n \in Nodes : NextLedger(n)

Spec == Init /\ [][Next]_vars

\* The heartbeat makes nodes update their positions again and again, and the
\* transactions do not stay in dispute for ever.
FairSpec == Spec /\ WF_vars(\E n \in Nodes : Update(n, TRUE))

----------------------------------------------------------------------------
\* The variables have their types; the walk of getNextLedgerTimeResolution
\* stays within the 10 to 120 seconds of the table.
TypeOK ==
  /\ resolution \in 10..120 /\ phase \in 0..(LEDGER_RES_INCREASE - 1)
  /\ ct \in [Nodes -> Nat]
  /\ done \in [Nodes -> BOOLEAN]
  /\ percent \in Percents \cup {0}

\* The loop over the counted close times finds what it is meant to find: the
\* largest group, the latest one among equals, if it is large enough, and
\* consensus if that group also reaches the consensus threshold.  The final
\* test on close time 0 never changes the outcome.
VoteIsLargestGroup ==
  \A p \in Percents \cup {0} :
    LET total == Cardinality(Nodes)
        vote == CloseTimeVote(Votes, total, p)
        valid == {t \in DOMAIN Votes : Votes[t] >= ComputePercent(total, NeededCloseTimePct(p))}
        best == {t \in valid : \A u \in valid :
                   Votes[u] < Votes[t] \/ (Votes[u] = Votes[t] /\ u <= t)}
    IN  IF valid = {} THEN vote = [closeTime |-> 0, consensus |-> FALSE]
        ELSE /\ best = {vote.closeTime}
             /\ vote.consensus <=>
                  Votes[vote.closeTime] >= ComputePercent(total, AV_CT_CONSENSUS_PCT)

\* Nodes that are done with close time consensus have the same close time, whatever the
\* others did between their updates.
CloseTimesAgree ==
  \A m, n \in Nodes : done[m] /\ done[n] => Round(ct[m]) = Round(ct[n])

\* Every round comes to an agreement on the close time, if only to disagree.
RoundsDecide == []<>(\A n \in Nodes : done[n])
=============================================================================

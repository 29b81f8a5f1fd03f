---------------------------- MODULE LedgerTiming ----------------------------
(***************************************************************************)
(* The decisions of a consensus round that depend on time and on counts:    *)
(* ContinuousLedgerTiming (ledger/LedgerTiming.cpp), the avalanche          *)
(* thresholds of ledger/LedgerTiming.h and the close time vote of           *)
(* LedgerConsensus::updateOurPositions.  Times are milliseconds unless the  *)
(* name says otherwise.                                                     *)
(***************************************************************************)
EXTENDS Integers, Sequences, FiniteSets, Functions

LEDGER_MIN_CONSENSUS_TIME == 3000
LEDGER_MIN_CLOSE == 2000
LEDGER_MIN_ADVERTISE_TIME == 2000
LEDGER_RES_INCREASE == 8
LEDGER_RES_DECREASE == 1
AV_CT_CONSENSUS_PCT == 75

\* LedgerTimeResolution, indexed from 0 as in the code; seconds.
LedgerTimeResolutionUnrepeated ==
  [i \in 0..7 |-> <<5, 10, 20, 30, 60, 90, 120, 240>>[i + 1]]
LedgerTimeResolution ==
  [i \in 0..7 |-> <<10, 10, 20, 30, 60, 90, 120, 120>>[i + 1]]

----------------------------------------------------------------------------
\* shouldClose without the administrative gFORCE_CLOSE override; idle stands
\* for sinceLastCloseMSeconds >= idleInterval * 1000.
ShouldClose(anyTransactions, targetProposers, proposersClosed, currentMSeconds, idle) ==
  \/ (proposersClosed * 100) \div targetProposers >= 75
  \/ /\ currentMSeconds > LEDGER_MIN_CLOSE
     /\ anyTransactions \/ idle

\* haveConsensus: enough proposers, and 80% of them and us agree.
HaveConsensus(targetProposers, currentProposers, currentAgree) ==
  /\ currentProposers + 1 >= targetProposers
  /\ (currentAgree * 100 + 100) \div (currentProposers + 1) >= 80

\* The index the scan of getNextLedgerTimeResolution stops at: it starts at 1.
ResolutionIndex(previous) ==
  CHOOSE i \in 1..7 : /\ LedgerTimeResolution[i] = previous
                      /\ \A j \in 1..(i - 1) : LedgerTimeResolution[j] # previous

NextResolution(previous, previousAgree, ledgerSeq) ==
  IF ~previousAgree /\ ledgerSeq % LEDGER_RES_DECREASE = 0
    THEN LedgerTimeResolution[ResolutionIndex(previous) + 1]
  ELSE IF previousAgree /\ ledgerSeq % LEDGER_RES_INCREASE = 0
    THEN LedgerTimeResolution[ResolutionIndex(previous) - 1]
  ELSE previous

----------------------------------------------------------------------------
\* The percentage of yes votes that a proposer wants for a disputed
\* transaction, and the smallest group, in percent, whose close time it
\* follows.  Both grow with the time spent, in percent of the last round.
NeededVotePct(percentTime) ==
  IF percentTime < 50 THEN 50
  ELSE IF percentTime < 85 THEN 65
  ELSE IF percentTime < 200 THEN 70
  ELSE 95

NeededCloseTimePct(percentTime) ==
  IF percentTime < 85 THEN 30
  ELSE IF percentTime < 200 THEN 40
  ELSE 51

\* computePercent: how many of size participants make percent.
ComputePercent(size, percent) ==
  LET result == (size * percent + percent \div 2) \div 100
  IN  IF result = 0 THEN 1 ELSE result

\* Ledger::roundCloseTime (seconds); 0 means "we agree to disagree".
RoundCloseTime(closeTime, resolution) ==
  IF closeTime = 0 THEN 0
  ELSE (closeTime + resolution \div 2) - ((closeTime + resolution \div 2) % resolution)

\* One turn of the loop over the counted close times, in increasing order.
CountCloseTimeKeepsThreshold(acc, time, count, threshConsensus) ==
  IF count >= acc.threshVote
    THEN [acc EXCEPT !.closeTime = time, !.consensus = @ \/ count >= threshConsensus]
    ELSE acc
CountCloseTime(acc, time, count, threshConsensus) ==
  IF count >= acc.threshVote
    THEN [closeTime |-> time, threshVote |-> count,
          consensus |-> acc.consensus \/ count >= threshConsensus]
    ELSE acc

\* The close time this node moves to and whether it is agreed.  votes counts
\* the participants behind each rounded close time; the loop goes through the
\* times in increasing order, so that the largest is the last.
CloseTimeVote(votes, participants, percentTime) ==
  LET threshVote == ComputePercent(participants, NeededCloseTimePct(percentTime))
      threshConsensus == ComputePercent(participants, AV_CT_CONSENSUS_PCT)
      final == MapThenFoldSet(LAMBDA t, acc : CountCloseTime(acc, t, votes[t], threshConsensus),
                              [closeTime |-> 0, threshVote |-> threshVote, consensus |-> FALSE],
                              LAMBDA t : t,
                              LAMBDA S : CHOOSE t \in S : \A u \in S : u <= t,
                              {t \in DOMAIN votes : votes[t] > 0})
      zero == IF 0 \in DOMAIN votes THEN votes[0] ELSE 0
  IN  IF ~final.consensus /\ zero > threshConsensus
        THEN [closeTime |-> 0, consensus |-> TRUE]
        ELSE [closeTime |-> final.closeTime, consensus |-> final.consensus]
=============================================================================

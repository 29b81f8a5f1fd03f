-------------------------- MODULE DisputedTxVotes ---------------------------
(***************************************************************************)
(* One disputed transaction during a round: peers vote, change their minds  *)
(* and leave, time passes, the node bows out, and updateOurPositions        *)
(* re-evaluates our vote.                                                   *)
(***************************************************************************)
EXTENDS DisputedTx, ClosePercent

CONSTANT Peers   \* the trusted peers of this round

ASSUME PeersAssumption == IsFiniteSet(Peers)

VARIABLES
  dispute,    \* the DisputedTx object
  proposing,  \* mProposing
  flips       \* history: our changes of vote since the peers or our role changed

disputeVars == <<dispute, percent, proposing, flips>>

DisputeInit ==
  /\ dispute \in {NewDispute(v) : v \in BOOLEAN}
  /\ percent \in Percents
  /\ proposing \in BOOLEAN
  /\ flips = 0

\* peerPosition and mapComplete call setVote.
PeerVotes(p, v) ==
  /\ dispute' = SetVote(dispute, p, v)
  /\ flips' = 0
  /\ UNCHANGED <<percent, proposing>>

\* A peer bows out or its proposal is stale.
PeerLeaves(p) ==
  /\ dispute' = UnVotes(dispute, {p})
  /\ flips' = 0
  /\ UNCHANGED <<percent, proposing>>

\* updateOurPositions.
UpdateDispute ==
  /\ dispute' = UpdateVote(dispute, percent, proposing)
  /\ flips' = IF dispute'.ourVote = dispute.ourVote THEN flips ELSE flips + 1
  /\ UNCHANGED <<percent, proposing>>

DisputeTick(p) ==
  /\ PercentGrows(p)
  /\ UNCHANGED <<dispute, proposing, flips>>

\* handleLCL makes the node stop proposing.
StopProposing ==
  /\ proposing
  /\ proposing' = FALSE
  /\ flips' = 0
  /\ UNCHANGED <<dispute, percent>>

DisputeNext ==
  \/ \E p \in Peers, v \in BOOLEAN : PeerVotes(p, v)
  \/ \E p \in Peers : PeerLeaves(p)
  \/ UpdateDispute
  \/ \E p \in Percents : DisputeTick(p)
  \/ StopProposing

DisputeSpec == DisputeInit /\ [][DisputeNext]_disputeVars

----------------------------------------------------------------------------
\* The variables have their types.
DisputeTypeOK ==
  /\ dispute \in Dispute(Peers)
  /\ percent \in Percents
  /\ proposing \in BOOLEAN
  /\ flips \in Nat

\* mYays and mNays, which setVote and unVote adjust step by step, are always
\* the number of peers whose last vote is yes and no, and no peer is on both
\* sides.
CountsMatchVotes ==
  /\ dispute.yays = Cardinality(dispute.yes)
  /\ dispute.nays = Cardinality(dispute.no)
  /\ dispute.yes \cap dispute.no = {}

\* The avalanche settles: while the peers' votes stand still, the growing
\* threshold lets updateVote change our vote at most twice (to yes and back),
\* and a node that does not propose changes it at most once.
AvalancheSettles == flips <= (IF proposing THEN 2 ELSE 1)
=============================================================================

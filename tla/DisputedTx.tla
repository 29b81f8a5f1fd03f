----------------------------- MODULE DisputedTx -----------------------------
(***************************************************************************)
(* DisputedTx (consensus/DisputedTx.cpp): the votes of the trusted peers on *)
(* one transaction, our own vote, and the running counts the code keeps     *)
(* beside the map of votes.  A dispute is a record; mVotes is the pair of   *)
(* sets yes and no of the peers that have voted.                            *)
(***************************************************************************)
EXTENDS LedgerTiming

Dispute(Peers) ==
  [ourVote : BOOLEAN, yes : SUBSET Peers, no : SUBSET Peers, yays : Nat, nays : Nat]

NewDispute(ourVote) ==
  [ourVote |-> ourVote, yes |-> {}, no |-> {}, yays |-> 0, nays |-> 0]

\* setVote of every peer of P, in any order: a new vote is counted, a vote
\* that changes moves from one count to the other.
VoteYesKeepsNays(d, P) ==
  [d EXCEPT !.yes = @ \cup P, !.no = @ \ P, !.yays = @ + Cardinality(P \ d.yes)]
VoteYes(d, P) ==
  [d EXCEPT !.yes = @ \cup P, !.no = @ \ P,
            !.yays = @ + Cardinality(P \ d.yes), !.nays = @ - Cardinality(P \cap d.no)]

VoteNo(d, P) ==
  [d EXCEPT !.no = @ \cup P, !.yes = @ \ P,
            !.nays = @ + Cardinality(P \ d.no), !.yays = @ - Cardinality(P \cap d.yes)]

SetVotes(d, P, votesYes) == IF votesYes THEN VoteYes(d, P) ELSE VoteNo(d, P)

SetVote(d, p, votesYes) == SetVotes(d, {p}, votesYes)

\* unVote of every peer of P.
UnVotes(d, P) ==
  [d EXCEPT !.yes = @ \ P, !.no = @ \ P,
            !.yays = @ - Cardinality(P \cap d.yes),
            !.nays = @ - Cardinality(P \cap d.no)]

\* updateVote: the vote we should have now.  A proposer counts itself with
\* full weight and asks for more as time passes; others follow the majority.
NewVoteFixedThreshold(d, percentTime, proposing) ==
  IF (IF d.ourVote THEN d.nays = 0 ELSE d.yays = 0) THEN d.ourVote
  ELSE IF proposing
    THEN (d.yays * 100 + (IF d.ourVote THEN 0 ELSE 100)) \div (d.nays + d.yays + 1) > 50
    ELSE d.yays > d.nays
NewVoteObserverStays(d, percentTime, proposing) ==
  IF (IF d.ourVote THEN d.nays = 0 ELSE d.yays = 0) \/ ~proposing THEN d.ourVote
  ELSE (d.yays * 100 + (IF d.ourVote THEN 100 ELSE 0)) \div (d.nays + d.yays + 1)
         > NeededVotePct(percentTime)
NewVote(d, percentTime, proposing) ==
  IF (IF d.ourVote THEN d.nays = 0 ELSE d.yays = 0) THEN d.ourVote
  ELSE IF proposing
    THEN (d.yays * 100 + (IF d.ourVote THEN 100 ELSE 0)) \div (d.nays + d.yays + 1)
           > NeededVotePct(percentTime)
    ELSE d.yays > d.nays

UpdateVote(d, percentTime, proposing) ==
  [d EXCEPT !.ourVote = NewVote(d, percentTime, proposing)]
=============================================================================

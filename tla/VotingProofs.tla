---------------------------- MODULE VotingProofs ----------------------------
(***************************************************************************)
(* The two votes of updateOurPositions, each for every finite set of        *)
(* participants and every course of time.  One dispute: the counts are      *)
(* those of the votes, and the avalanche settles.  The close time: the loop *)
(* finds the largest group, and all nodes that are done agree.              *)
(***************************************************************************)
EXTENDS DisputedTxVotes, CloseTime, FiniteSetTheorems, WellFoundedInduction, TLAPS

-----------------------------------------------------------------------------
(* A disputed transaction. *)

\* A dispute whose counts are those of its votes.
Counted(d, P) ==
  /\ d \in Dispute(P)
  /\ d.yays = Cardinality(d.yes) /\ d.nays = Cardinality(d.no)
  /\ d.yes \cap d.no = {}

\* One peer more or less: by how much setVote and unVote change a count.
LEMMA OneMore ==
  ASSUME NEW V, IsFiniteSet(V), NEW p
  PROVE  /\ Cardinality(V \cup {p}) = Cardinality(V) + Cardinality({p} \ V)
         /\ Cardinality(V \ {p}) = Cardinality(V) - Cardinality({p} \cap V)
         /\ Cardinality(V \cup {p}) \in Nat /\ Cardinality(V \ {p}) \in Nat
<1>1. /\ IsFiniteSet(V \cup {p}) /\ IsFiniteSet(V \ {p})
      /\ Cardinality(V \cup {p}) = IF p \in V THEN Cardinality(V) ELSE Cardinality(V) + 1
      /\ Cardinality(V \ {p}) = IF p \in V THEN Cardinality(V) - 1 ELSE Cardinality(V)
  BY FS_AddElement, FS_RemoveElement
<1>2. /\ Cardinality(V) \in Nat /\ Cardinality(V \cup {p}) \in Nat /\ Cardinality(V \ {p}) \in Nat
      /\ Cardinality({}) = 0 /\ Cardinality({p}) = 1
  BY Zenon, <1>1, FS_CardinalityType, FS_EmptySet, FS_Singleton
<1>3. CASE p \in V
  <2>1. {p} \ V = {} /\ {p} \cap V = {p} /\ V \cup {p} = V
    BY <1>3
  <2> QED BY <1>1, <1>2, <1>3, <2>1
<1>4. CASE p \notin V
  <2>1. {p} \ V = {p} /\ {p} \cap V = {}
    BY <1>4
  <2>2. Cardinality({p} \ V) = 1 /\ Cardinality({p} \cap V) = 0
    BY Zenon, <1>2, <2>1
  <2> QED BY <1>1, <1>2, <1>4, <2>2
<1> QED BY <1>3, <1>4

\* setVote and unVote of a peer keep the counts right, whatever it voted before.
LEMMA OneVote ==
  ASSUME NEW d, Counted(d, Peers), NEW p \in Peers
  PROVE  /\ Counted(VoteYes(d, {p}), Peers) /\ Counted(VoteNo(d, {p}), Peers)
         /\ Counted(UnVotes(d, {p}), Peers)
<1>1. /\ d.yes \in SUBSET Peers /\ d.no \in SUBSET Peers /\ d.ourVote \in BOOLEAN
      /\ d.yays = Cardinality(d.yes) /\ d.nays = Cardinality(d.no) /\ d.yes \cap d.no = {}
      /\ d = [ourVote |-> d.ourVote, yes |-> d.yes, no |-> d.no, yays |-> d.yays,
              nays |-> d.nays]
  BY DEF Counted, Dispute
<1>2. IsFiniteSet(d.yes) /\ IsFiniteSet(d.no)
  BY <1>1, PeersAssumption, FS_Subset
<1> DEFINE rec(y, n) == [ourVote |-> d.ourVote, yes |-> y, no |-> n,
                         yays |-> Cardinality(y), nays |-> Cardinality(n)]
<1>3. ASSUME NEW y \in SUBSET Peers, NEW n \in SUBSET Peers, y \cap n = {},
             Cardinality(y) \in Nat, Cardinality(n) \in Nat
      PROVE  Counted(rec(y, n), Peers)
  BY <1>1, <1>3 DEF Counted, Dispute
<1>4. /\ d.yays + Cardinality({p} \ d.yes) = Cardinality(d.yes \cup {p})
      /\ d.nays + Cardinality({p} \ d.no) = Cardinality(d.no \cup {p})
      /\ d.yays - Cardinality({p} \cap d.yes) = Cardinality(d.yes \ {p})
      /\ d.nays - Cardinality({p} \cap d.no) = Cardinality(d.no \ {p})
  BY Zenon, <1>1, <1>2, OneMore
<1>5. /\ Cardinality(d.yes \cup {p}) \in Nat /\ Cardinality(d.no \cup {p}) \in Nat
      /\ Cardinality(d.yes \ {p}) \in Nat /\ Cardinality(d.no \ {p}) \in Nat
  BY Zenon, <1>2, OneMore
<1>6. VoteYes(d, {p}) = rec(d.yes \cup {p}, d.no \ {p})
  <2>1. VoteYes(d, {p}) =
          [d EXCEPT !.yes = d.yes \cup {p}, !.no = d.no \ {p},
                    !.yays = Cardinality(d.yes \cup {p}), !.nays = Cardinality(d.no \ {p})]
    BY Zenon, <1>4 DEF VoteYes
  <2> QED BY Zenon, <1>1, <2>1
<1>7. VoteNo(d, {p}) = rec(d.yes \ {p}, d.no \cup {p})
  <2>1. VoteNo(d, {p}) =
          [d EXCEPT !.no = d.no \cup {p}, !.yes = d.yes \ {p},
                    !.nays = Cardinality(d.no \cup {p}), !.yays = Cardinality(d.yes \ {p})]
    BY Zenon, <1>4 DEF VoteNo
  <2> QED BY Zenon, <1>1, <2>1
<1>8. UnVotes(d, {p}) = rec(d.yes \ {p}, d.no \ {p})
  <2>1. UnVotes(d, {p}) =
          [d EXCEPT !.yes = d.yes \ {p}, !.no = d.no \ {p},
                    !.yays = Cardinality(d.yes \ {p}), !.nays = Cardinality(d.no \ {p})]
    BY Zenon, <1>4 DEF UnVotes
  <2> QED BY Zenon, <1>1, <2>1
<1> HIDE DEF rec
<1>9. /\ Counted(rec(d.yes \cup {p}, d.no \ {p}), Peers)
      /\ Counted(rec(d.yes \ {p}, d.no \cup {p}), Peers)
      /\ Counted(rec(d.yes \ {p}, d.no \ {p}), Peers)
  BY <1>1, <1>3, <1>5
<1> QED BY <1>6, <1>7, <1>8, <1>9

\* The weight of the yes side, in percent, with our vote on it and without.
WithUs(d) == (d.yays * 100 + 100) \div (d.nays + d.yays + 1)
WithoutUs(d) == (d.yays * 100 + 0) \div (d.nays + d.yays + 1)

\* What keeps the avalanche from going round in circles.  A proposer that went
\* to no did so because even with its own yes the weight was not enough; the
\* threshold never falls, so it stays there.  An observer that changed its vote
\* has the majority's.
Settled ==
  IF proposing
    THEN /\ flips = 2 => ~dispute.ourVote
         /\ flips >= 1 /\ ~dispute.ourVote => WithUs(dispute) <= NeededVotePct(percent)
    ELSE flips = 1 => dispute.ourVote = (dispute.yays > dispute.nays)

DisputeInv == DisputeTypeOK /\ CountsMatchVotes /\ AvalancheSettles /\ Settled

\* Dividing keeps the order.
LEMMA DivMonotone ==
  ASSUME NEW a \in Nat, NEW b \in Nat, NEW n \in Nat, n > 0, a <= b
  PROVE  a \div n <= b \div n
  OBVIOUS

\* The avalanche threshold never falls as time passes.
LEMMA ThresholdGrows ==
  ASSUME NEW s \in Nat, NEW t \in Nat, s <= t
  PROVE  NeededVotePct(s) <= NeededVotePct(t)
  BY DEF NeededVotePct

\* In a state of the invariant the counts are natural numbers and the record
\* is one whose counts are right.
LEMMA InvCounts ==
  ASSUME DisputeInv
  PROVE  /\ Counted(dispute, Peers) /\ dispute.yays \in Nat /\ dispute.nays \in Nat
         /\ dispute.ourVote \in BOOLEAN
<1>1. dispute \in Dispute(Peers)
  BY DEF DisputeInv, DisputeTypeOK
<1>2. IsFiniteSet(dispute.yes) /\ IsFiniteSet(dispute.no)
  BY <1>1, PeersAssumption, FS_Subset DEF Dispute
<1>3. Cardinality(dispute.yes) \in Nat /\ Cardinality(dispute.no) \in Nat
  BY <1>2, FS_CardinalityType
<1> QED BY <1>1, <1>3 DEF DisputeInv, CountsMatchVotes, Counted, Dispute

\* Right counts and no flips since the peers changed make the invariant hold.
LEMMA FreshVotes ==
  ASSUME Counted(dispute, Peers)', percent' \in Percents, proposing' \in BOOLEAN, flips' = 0
  PROVE  DisputeInv'
<1>1. DisputeTypeOK' /\ CountsMatchVotes'
  BY DEF Counted, DisputeTypeOK, CountsMatchVotes
<1>2. AvalancheSettles' /\ Settled'
  BY DEF AvalancheSettles, Settled
<1> QED BY <1>1, <1>2 DEF DisputeInv

\* A new dispute.
LEMMA DisputeInitInv == DisputeInit => DisputeInv
<1> SUFFICES ASSUME DisputeInit PROVE DisputeInv
  OBVIOUS
<1>1. dispute.yes = {} /\ dispute.no = {} /\ dispute.yays = 0 /\ dispute.nays = 0
  BY DEF DisputeInit, NewDispute
<1>2. dispute \in Dispute(Peers)
  BY DEF DisputeInit, NewDispute, Dispute
<1>3. DisputeTypeOK
  BY <1>2 DEF DisputeInit, DisputeTypeOK
<1>4. CountsMatchVotes
  BY <1>1, FS_EmptySet DEF CountsMatchVotes
<1>5. AvalancheSettles /\ Settled
  BY DEF DisputeInit, AvalancheSettles, Settled
<1> QED BY <1>3, <1>4, <1>5 DEF DisputeInv

\* updateVote changes nothing but our vote.
LEMMA UpdateKeepsCounts ==
  ASSUME DisputeInv, UpdateDispute
  PROVE  /\ Counted(dispute, Peers)'
         /\ dispute'.yays = dispute.yays /\ dispute'.nays = dispute.nays
         /\ dispute'.ourVote = NewVote(dispute, percent, proposing)
<1>1. /\ Counted(dispute, Peers) /\ dispute.yays \in Nat /\ dispute.nays \in Nat
      /\ dispute.ourVote \in BOOLEAN
  BY InvCounts
<1>2. dispute' = [dispute EXCEPT !.ourVote = NewVote(dispute, percent, proposing)]
  BY DEF UpdateDispute, UpdateVote
<1>3. NewVote(dispute, percent, proposing) \in BOOLEAN
  <2>1. CASE IF dispute.ourVote THEN dispute.nays = 0 ELSE dispute.yays = 0
    BY <1>1, <2>1 DEF NewVote
  <2>2. CASE ~(IF dispute.ourVote THEN dispute.nays = 0 ELSE dispute.yays = 0)
    <3>1. CASE proposing
      BY <2>2, <3>1 DEF NewVote
    <3>2. CASE ~proposing
      BY <2>2, <3>2 DEF NewVote
    <3> QED BY <3>1, <3>2
  <2> QED BY <2>1, <2>2
<1> HIDE DEF NewVote
<1>4. dispute' \in Dispute(Peers)
  BY <1>1, <1>2, <1>3 DEF Counted, Dispute
<1>5. /\ dispute'.yes = dispute.yes /\ dispute'.no = dispute.no
      /\ dispute'.yays = dispute.yays /\ dispute'.nays = dispute.nays
      /\ dispute'.ourVote = NewVote(dispute, percent, proposing)
  BY <1>1, <1>2 DEF Counted, Dispute
<1> QED BY <1>1, <1>4, <1>5 DEF Counted

\* A vote of ours that updateVote turns to yes or to no.
LEMMA UpdateTurns ==
  ASSUME DisputeInv, UpdateDispute, proposing
  PROVE  /\ ~dispute.ourVote /\ dispute'.ourVote
              => WithoutUs(dispute) > NeededVotePct(percent)
         /\ dispute.ourVote /\ ~dispute'.ourVote
              => WithUs(dispute) <= NeededVotePct(percent)
<1>1. dispute.yays \in Nat /\ dispute.nays \in Nat /\ dispute.ourVote \in BOOLEAN
  BY InvCounts
<1>2. dispute'.ourVote = NewVote(dispute, percent, proposing)
  BY Zenon, UpdateKeepsCounts
<1>3. WithUs(dispute) \in Int /\ WithoutUs(dispute) \in Int
  BY <1>1 DEF WithUs, WithoutUs
<1>4. NeededVotePct(percent) \in Int
  BY DEF NeededVotePct
<1>5. CASE dispute.ourVote
  <2>1. CASE dispute.nays = 0
    BY <1>2, <1>5, <2>1 DEF NewVote
  <2>2. CASE dispute.nays # 0
    <3>1. NewVote(dispute, percent, proposing) = (WithUs(dispute) > NeededVotePct(percent))
      BY <1>5, <2>2 DEF NewVote, WithUs, WithoutUs
    <3>2. CASE WithUs(dispute) > NeededVotePct(percent)
      BY <1>2, <1>5, <3>1, <3>2, Zenon
    <3>3. CASE ~(WithUs(dispute) > NeededVotePct(percent))
      <4>1. ~dispute'.ourVote
        BY <1>2, <3>1, <3>3, Zenon
      <4>2. WithUs(dispute) <= NeededVotePct(percent)
        BY <1>3, <1>4, <3>3
      <4> QED BY <1>5, <4>1, <4>2, Zenon
    <3> QED BY <3>2, <3>3
  <2> QED BY <2>1, <2>2
<1>6. CASE ~dispute.ourVote
  <2>1. CASE dispute.yays = 0
    BY <1>2, <1>6, <2>1 DEF NewVote
  <2>2. CASE dispute.yays # 0
    <3>1. NewVote(dispute, percent, proposing) = (WithoutUs(dispute) > NeededVotePct(percent))
      BY <1>6, <2>2 DEF NewVote, WithUs, WithoutUs
    <3>2. CASE WithoutUs(dispute) > NeededVotePct(percent)
      BY <1>2, <1>6, <3>1, <3>2, Zenon
    <3>3. CASE ~(WithoutUs(dispute) > NeededVotePct(percent))
      <4>1. ~dispute'.ourVote
        BY <1>2, <3>1, <3>3, Zenon
      <4>2. WithoutUs(dispute) <= NeededVotePct(percent)
        BY <1>3, <1>4, <3>3
      <4> QED BY <1>6, <4>1, <4>2, Zenon
    <3> QED BY <3>2, <3>3
  <2> QED BY <2>1, <2>2
<1> QED BY <1>1, <1>5, <1>6

\* Our own yes never makes the yes side lighter.
LEMMA WeightOrder ==
  ASSUME NEW d, d.yays \in Nat, d.nays \in Nat
  PROVE  /\ WithoutUs(d) <= WithUs(d)
         /\ WithoutUs(d) \in Int /\ WithUs(d) \in Int
<1>1. /\ d.yays * 100 \in Nat /\ d.yays * 100 + 100 \in Nat
      /\ d.nays + d.yays + 1 \in Nat /\ d.nays + d.yays + 1 > 0
      /\ d.yays * 100 <= d.yays * 100 + 100
  OBVIOUS
<1>2. (d.yays * 100) \div (d.nays + d.yays + 1) <= (d.yays * 100 + 100) \div (d.nays + d.yays + 1)
  BY <1>1, DivMonotone
<1>3. d.yays * 100 + 0 = d.yays * 100
  OBVIOUS
<1> QED BY <1>1, <1>2, <1>3 DEF WithUs, WithoutUs

\* Reconsidering our vote keeps the invariant.
LEMMA UpdateDisputeInv ==
  ASSUME DisputeInv, UpdateDispute
  PROVE  DisputeInv'
<1>1. /\ Counted(dispute, Peers)'
      /\ dispute'.yays = dispute.yays /\ dispute'.nays = dispute.nays
      /\ dispute'.ourVote = NewVote(dispute, percent, proposing)
  BY UpdateKeepsCounts
<1>2. dispute.yays \in Nat /\ dispute.nays \in Nat /\ dispute.ourVote \in BOOLEAN
  BY InvCounts
<1>3. /\ percent' = percent /\ proposing' = proposing
      /\ flips' = IF dispute'.ourVote = dispute.ourVote THEN flips ELSE flips + 1
      /\ percent \in Percents /\ proposing \in BOOLEAN /\ flips \in Nat
      /\ dispute'.ourVote \in BOOLEAN
  BY <1>1 DEF UpdateDispute, DisputeInv, DisputeTypeOK, Counted, Dispute
<1>4. DisputeTypeOK' /\ CountsMatchVotes'
  BY <1>1, <1>3 DEF DisputeTypeOK, CountsMatchVotes, Counted
<1>5. /\ WithoutUs(dispute) <= WithUs(dispute)
      /\ WithoutUs(dispute) \in Int /\ WithUs(dispute) \in Int
  BY <1>2, WeightOrder
<1>6. WithUs(dispute') = WithUs(dispute)
  BY <1>1 DEF WithUs, WithoutUs
<1>7. NeededVotePct(percent) \in Int
  BY DEF NeededVotePct
<1>8. CASE proposing
  <2>1. /\ ~dispute.ourVote /\ dispute'.ourVote
             => WithoutUs(dispute) > NeededVotePct(percent)
        /\ dispute.ourVote /\ ~dispute'.ourVote
             => WithUs(dispute) <= NeededVotePct(percent)
    BY <1>8, UpdateTurns
  <2>2. /\ flips <= 2 /\ (flips = 2 => ~dispute.ourVote)
        /\ flips >= 1 /\ ~dispute.ourVote => WithUs(dispute) <= NeededVotePct(percent)
    BY <1>8 DEF DisputeInv, AvalancheSettles, Settled
  <2>3. CASE dispute'.ourVote = dispute.ourVote
    <3>1. flips' = flips
      BY <1>3, <2>3
    <3> QED BY <1>3, <1>4, <1>6, <1>8, <2>2, <2>3, <3>1 DEF DisputeInv, AvalancheSettles, Settled
  <2>4. CASE dispute.ourVote /\ ~dispute'.ourVote
    <3>1. flips' = flips + 1 /\ flips # 2
      BY Zenon, <1>3, <2>2, <2>4
    <3>2. flips \in Nat /\ flips <= 2
      BY <1>3, <2>2
    <3>3. flips' <= 2
      BY <3>1, <3>2
    <3>4. WithUs(dispute) <= NeededVotePct(percent)
      BY <2>1, <2>4
    <3> QED BY Zenon, <1>3, <1>4, <1>6, <1>8, <2>4, <3>3, <3>4
          DEF DisputeInv, AvalancheSettles, Settled
  <2>5. CASE ~dispute.ourVote /\ dispute'.ourVote
    <3>1. flips' = flips + 1
      BY Zenon, <1>3, <2>5
    <3>2. ~(flips >= 1)
      BY <1>5, <1>7, <2>1, <2>2, <2>5
    <3>3. flips \in Nat
      BY <1>3
    <3>4. flips' = 1
      BY <3>1, <3>2, <3>3
    <3>5. proposing'
      BY <1>3, <1>8
    <3>6. AvalancheSettles' /\ Settled'
      BY <2>5, <3>4, <3>5 DEF AvalancheSettles, Settled
    <3> QED BY <1>4, <3>6 DEF DisputeInv
  <2> QED BY <1>2, <1>3, <2>3, <2>4, <2>5
<1>9. CASE ~proposing
  <2>1. flips <= 1 /\ (flips = 1 => dispute.ourVote = (dispute.yays > dispute.nays))
    BY <1>9 DEF DisputeInv, AvalancheSettles, Settled
  <2>2. dispute'.ourVote # dispute.ourVote
          => dispute'.ourVote = (dispute.yays > dispute.nays)
    BY <1>1, <1>9 DEF NewVote
  <2>3. flips' <= 1 /\ (flips' = 1 => dispute'.ourVote = (dispute.yays > dispute.nays))
    BY <1>3, <2>1, <2>2
  <2> QED BY <1>1, <1>3, <1>4, <1>9, <2>3 DEF DisputeInv, AvalancheSettles, Settled
<1> QED BY <1>3, <1>8, <1>9

\* Every step keeps the invariant.
LEMMA DisputeNextInv == DisputeInv /\ [DisputeNext]_disputeVars => DisputeInv'
<1> SUFFICES ASSUME DisputeInv, [DisputeNext]_disputeVars PROVE DisputeInv'
  OBVIOUS
<1>1. Counted(dispute, Peers)
  BY InvCounts
<1>2. percent \in Percents /\ proposing \in BOOLEAN /\ flips \in Nat
  BY DEF DisputeInv, DisputeTypeOK
<1>3. CASE \E p \in Peers, v \in BOOLEAN : PeerVotes(p, v)
  <2>1. PICK p \in Peers, v \in BOOLEAN : PeerVotes(p, v)
    BY <1>3
  <2>2. Counted(VoteYes(dispute, {p}), Peers) /\ Counted(VoteNo(dispute, {p}), Peers)
    BY <1>1, OneVote
  <2>3. /\ dispute' \in {VoteYes(dispute, {p}), VoteNo(dispute, {p})}
        /\ percent' = percent /\ proposing' = proposing /\ flips' = 0
    BY <2>1 DEF PeerVotes, SetVote, SetVotes
  <2>4. Counted(dispute', Peers)
    BY <2>2, <2>3, Zenon
  <2> QED BY <1>2, <2>3, <2>4, FreshVotes
<1>4. CASE \E p \in Peers : PeerLeaves(p)
  <2>1. PICK p \in Peers : PeerLeaves(p)
    BY <1>4
  <2>2. Counted(UnVotes(dispute, {p}), Peers)
    BY <1>1, OneVote
  <2>3. /\ dispute' = UnVotes(dispute, {p})
        /\ percent' = percent /\ proposing' = proposing /\ flips' = 0
    BY <2>1 DEF PeerLeaves
  <2>4. Counted(dispute', Peers)
    BY <2>2, <2>3, Zenon
  <2> QED BY <1>2, <2>3, <2>4, FreshVotes
<1>5. CASE UpdateDispute
  BY <1>5, UpdateDisputeInv
<1>6. CASE \E t \in Percents : DisputeTick(t)
  <2>1. PICK t \in Percents : DisputeTick(t)
    BY <1>6
  <2>2. /\ t > percent /\ percent' = t /\ dispute' = dispute
        /\ proposing' = proposing /\ flips' = flips
    BY <2>1 DEF DisputeTick, PercentGrows
  <2>3. percent \in Nat /\ t \in Nat /\ percent <= t
    BY <1>2, <2>2, PercentsAssumption
  <2>4. NeededVotePct(percent) <= NeededVotePct(t)
    BY <2>3, ThresholdGrows
  <2>5. NeededVotePct(percent) \in Int /\ NeededVotePct(t) \in Int /\ WithUs(dispute) \in Int
    <3>1. WithUs(dispute) \in Int
      BY InvCounts, WeightOrder
    <3>2. NeededVotePct(percent) \in Int /\ NeededVotePct(t) \in Int
      BY DEF NeededVotePct
    <3> QED BY <3>1, <3>2
  <2>6. DisputeTypeOK' /\ CountsMatchVotes' /\ AvalancheSettles'
    BY <2>2 DEF DisputeInv, DisputeTypeOK, CountsMatchVotes, AvalancheSettles
  <2>7. Settled'
    BY <2>2, <2>4, <2>5 DEF DisputeInv, Settled
  <2> QED BY <2>6, <2>7 DEF DisputeInv
<1>7. CASE StopProposing
  BY Zenon, <1>1, <1>2, <1>7, FreshVotes DEF StopProposing
<1>8. CASE UNCHANGED disputeVars
  BY <1>8 DEF disputeVars, DisputeInv, DisputeTypeOK, CountsMatchVotes, AvalancheSettles, Settled
<1> QED BY <1>3, <1>4, <1>5, <1>6, <1>7, <1>8 DEF DisputeNext

\* For any peers and times, the running counts mYays and mNays of setVote and
\* unVote are the numbers of peers whose last vote is yes and no.
THEOREM CountsAlwaysMatch == DisputeSpec => []CountsMatchVotes
<1>1. DisputeInv => CountsMatchVotes
  BY DEF DisputeInv
<1> QED BY <1>1, DisputeInitInv, DisputeNextInv, PTL DEF DisputeSpec

\* For any number of peers and any course of time, updateVote changes our vote
\* at most twice while the peers stand still, at most once if we only observe.
THEOREM AvalancheAlwaysSettles == DisputeSpec => []AvalancheSettles
<1>1. DisputeInv => AvalancheSettles
  BY DEF DisputeInv
<1> QED BY <1>1, DisputeInitInv, DisputeNextInv, PTL DEF DisputeSpec

-----------------------------------------------------------------------------
(* Rounding, and the walk through the table of resolutions. *)

Resolutions == {10, 20, 30, 60, 90, 120}

\* A close time is rounded to a natural number, and a rounded time is its own
\* rounding.
LEMMA RoundTwice ==
  ASSUME NEW r \in Resolutions, NEW t \in Nat
  PROVE  /\ RoundCloseTime(t, r) \in Nat
         /\ RoundCloseTime(RoundCloseTime(t, r), r) = RoundCloseTime(t, r)
<1>1. CASE r = 10
  BY <1>1 DEF RoundCloseTime
<1>2. CASE r = 20
  BY <1>2 DEF RoundCloseTime
<1>3. CASE r = 30
  BY <1>3 DEF RoundCloseTime
<1>4. CASE r = 60
  BY <1>4 DEF RoundCloseTime
<1>5. CASE r = 90
  BY <1>5 DEF RoundCloseTime
<1>6. CASE r = 120
  BY <1>6 DEF RoundCloseTime
<1> QED BY <1>1, <1>2, <1>3, <1>4, <1>5, <1>6 DEF Resolutions

\* The walk of getNextLedgerTimeResolution does not leave the table.
LEMMA ResolutionStays ==
  ASSUME NEW r \in Resolutions, NEW agree \in BOOLEAN, NEW seq \in Nat
  PROVE  NextResolution(r, agree, seq) \in Resolutions
<1>1. /\ LedgerTimeResolution[0] = 10 /\ LedgerTimeResolution[1] = 10
      /\ LedgerTimeResolution[2] = 20 /\ LedgerTimeResolution[3] = 30
      /\ LedgerTimeResolution[4] = 60 /\ LedgerTimeResolution[5] = 90
      /\ LedgerTimeResolution[6] = 120 /\ LedgerTimeResolution[7] = 120
  BY DEF LedgerTimeResolution
<1>2. \E i \in 1 .. 6 : LedgerTimeResolution[i] = r
                        /\ \A j \in 1 .. (i - 1) : LedgerTimeResolution[j] # r
  BY <1>1 DEF Resolutions
<1>3. /\ ResolutionIndex(r) \in 1 .. 7 /\ LedgerTimeResolution[ResolutionIndex(r)] = r
      /\ \A j \in 1 .. (ResolutionIndex(r) - 1) : LedgerTimeResolution[j] # r
  BY <1>2 DEF ResolutionIndex
<1>4. ResolutionIndex(r) # 7
  BY <1>1, <1>3
<1>5. ResolutionIndex(r) \in {1, 2, 3, 4, 5, 6}
  BY <1>3, <1>4
<1>6. /\ LedgerTimeResolution[ResolutionIndex(r) + 1] \in Resolutions
      /\ LedgerTimeResolution[ResolutionIndex(r) - 1] \in Resolutions
  BY <1>1, <1>5 DEF Resolutions
<1> QED BY <1>6 DEF NextResolution

-----------------------------------------------------------------------------
(* The loop over the counted close times. *)

Largest(s) == CHOOSE t \in s : \A u \in s : u <= t

CountBody(g, votes, base, cons, s) ==
  IF s = {} THEN base
  ELSE CountCloseTime(g[s \ {Largest(s)}], Largest(s), votes[Largest(s)], cons)

\* g is the outcome of the loop over each set of times of D.
CountsOver(g, votes, base, cons, D) == g = [s \in D |-> CountBody(g, votes, base, cons, s)]

Counts(votes, base, cons, S) == CHOOSE g : CountsOver(g, votes, base, cons, SUBSET S)

ThreshVote(total, p) == ComputePercent(total, NeededCloseTimePct(p))
ThreshConsensus(total) == ComputePercent(total, AV_CT_CONSENSUS_PCT)
NoVote(thresh) == [closeTime |-> 0, threshVote |-> thresh, consensus |-> FALSE]

\* What the loop ends with, over the times that somebody voted for.
Final(votes, total, p) ==
  LET S == {t \in DOMAIN votes : votes[t] > 0}
  IN  Counts(votes, NoVote(ThreshVote(total, p)), ThreshConsensus(total), S)[S]

\* The vote, by the outcome of the loop and the test on close time 0.
LEMMA VoteUnfold ==
  ASSUME NEW votes, NEW total, NEW p
  PROVE  CloseTimeVote(votes, total, p) =
           IF /\ ~Final(votes, total, p).consensus
              /\ (IF 0 \in DOMAIN votes THEN votes[0] ELSE 0) > ThreshConsensus(total)
             THEN [closeTime |-> 0, consensus |-> TRUE]
             ELSE [closeTime |-> Final(votes, total, p).closeTime,
                   consensus |-> Final(votes, total, p).consensus]
  BY Zenon DEF CloseTimeVote, MapThenFoldSet, Final, Counts, CountsOver, CountBody, Largest, NoVote,
               ThreshVote, ThreshConsensus

\* A set of naturals that is not empty has a least element.
LEMMA LeastOf ==
  ASSUME NEW B, B \subseteq Nat, B # {}
  PROVE  \E m \in B : \A k \in B : m <= k
<1> DEFINE R == OpToRel(<, Nat)
<1>1. IsWellFoundedOn(R, Nat)
  BY Zenon, NatLessThanWellFounded
<1>2. PICK m \in B : \A k \in B : ~(<<k, m>> \in R)
  <2> HIDE DEF R
  <2> QED BY Zenon, <1>1, WFMin
<1>3. \A k \in B : m <= k
  <2> TAKE k \in B
  <2>1. k \in Nat /\ m \in Nat /\ <<k, m>> \in Nat \X Nat
    OBVIOUS
  <2>2. ~(k < m)
    BY <2>1, <1>2 DEF OpToRel
  <2> QED BY <2>1, <2>2
<1> QED BY <1>3

\* Induction over the subsets of a finite set: if some are bad, one of them is
\* bad and no smaller one is.
LEMMA SmallestBad ==
  ASSUME NEW S, IsFiniteSet(S), NEW B, B \subseteq SUBSET S, B # {}
  PROVE  \E s \in B : \A t \in SUBSET S : Cardinality(t) < Cardinality(s) => t \notin B
<1> DEFINE C == {Cardinality(s) : s \in B}
<1>1. \A s \in SUBSET S : Cardinality(s) \in Nat
  BY FS_Subset, FS_CardinalityType
<1>2. C \subseteq Nat /\ C # {}
  BY <1>1
<1>3. PICK m \in C : \A k \in C : m <= k
  BY Zenon, <1>2, LeastOf
<1>4. PICK s \in B : Cardinality(s) = m
  OBVIOUS
<1>5. ASSUME NEW t \in SUBSET S, Cardinality(t) < Cardinality(s), t \in B PROVE FALSE
  <2>1. Cardinality(t) \in C
    BY <1>5
  <2>2. m <= Cardinality(t)
    BY <2>1, <1>3
  <2> QED BY <2>2, <1>4, <1>5, <1>1
<1> QED BY <1>4, <1>5

\* A subset without one of its elements is a smaller one.
LEMMA OneLess ==
  ASSUME NEW S, IsFiniteSet(S), NEW s \in SUBSET S, NEW x \in s
  PROVE  /\ s \ {x} \in SUBSET S
         /\ Cardinality(s \ {x}) = Cardinality(s) - 1
         /\ Cardinality(s) \in Nat
         /\ Cardinality(s) # 0
         /\ Cardinality(s \ {x}) \in Nat
<1>1. IsFiniteSet(s)
  BY FS_Subset
<1> QED BY <1>1, FS_RemoveElement, FS_CardinalityType, FS_EmptySet

\* A finite set of times that is not empty has a largest one.
LEMMA LargestIn ==
  ASSUME NEW S, IsFiniteSet(S), S \subseteq Nat, NEW s \in SUBSET S, s # {}
  PROVE  Largest(s) \in s /\ \A u \in s : u <= Largest(s)
<1> DEFINE Top(v) == \E t \in v : \A u \in v : u <= t
           Bad == {v \in SUBSET S : v # {} /\ ~Top(v)}
<1>1. Bad = {}
  <2> SUFFICES ASSUME Bad # {} PROVE FALSE
    OBVIOUS
  <2>1. PICK v \in Bad : \A w \in SUBSET S : Cardinality(w) < Cardinality(v) => w \notin Bad
    <3>1. Bad \subseteq SUBSET S
      OBVIOUS
    <3> HIDE DEF Bad
    <3> QED BY Zenon, <3>1, SmallestBad
  <2>2. PICK x \in v : TRUE
    BY Zenon
  <2>3. v \ {x} \in SUBSET S /\ Cardinality(v \ {x}) < Cardinality(v)
    <3>1. v \in SUBSET S
      OBVIOUS
    <3>2. /\ v \ {x} \in SUBSET S /\ Cardinality(v \ {x}) = Cardinality(v) - 1
          /\ Cardinality(v) \in Nat
      BY Zenon, <3>1, OneLess
    <3> QED BY <3>2
  <2>4. v \ {x} \notin Bad
    BY Zenon, <2>1, <2>3
  <2>5. v \subseteq Nat /\ x \in Nat
    OBVIOUS
  <2>6. CASE v \ {x} = {}
    <3>1. \A u \in v : u <= x
      BY <2>5, <2>6
    <3> QED BY <3>1
  <2>7. CASE v \ {x} # {}
    <3>1. PICK t \in v \ {x} : \A u \in v \ {x} : u <= t
      BY <2>3, <2>4, <2>7
    <3>2. CASE x <= t
      <4>1. \A u \in v : u <= t
        BY <3>1, <3>2
      <4> QED BY <4>1
    <3>3. CASE ~(x <= t)
      <4>1. \A u \in v : u <= x
        BY <2>5, <3>1, <3>3
      <4> QED BY <4>1
    <3> QED BY <3>2, <3>3
  <2> QED BY <2>6, <2>7
<1>2. \E t \in s : \A u \in s : u <= t
  BY Zenon, <1>1
<1> QED BY <1>2, Zenon DEF Largest

\* The function that the loop is defined by exists, level by level.
LEMMA CountsExist ==
  ASSUME NEW votes, NEW base, NEW cons, NEW S, IsFiniteSet(S), S \subseteq Nat
  PROVE  \E g : CountsOver(g, votes, base, cons, SUBSET S)
<1> DEFINE Up(n) == {s \in SUBSET S : Cardinality(s) <= n}
           Bad == {n \in Nat : ~\E h : CountsOver(h, votes, base, cons, Up(n))}
<1>1. \A s \in SUBSET S : Cardinality(s) \in Nat
  BY Zenon, FS_Subset, FS_CardinalityType
<1>2. Bad = {}
  <2> SUFFICES ASSUME Bad # {} PROVE FALSE
    BY Zenon
  <2>1. PICK m \in Bad : \A k \in Bad : m <= k
    <3>1. Bad \subseteq Nat
      OBVIOUS
    <3> HIDE DEF Bad
    <3> QED BY Zenon, <3>1, LeastOf
  <2>2. m \in Nat
    OBVIOUS
  <2>3. CASE m = 0
    <3> DEFINE h == [s \in Up(0) |-> base]
    <3>1. \A s \in Up(0) : s = {}
      <4> TAKE s \in Up(0)
      <4>1. IsFiniteSet(s) /\ Cardinality(s) \in Nat /\ Cardinality(s) <= 0
        BY Zenon, <1>1, FS_Subset
      <4> QED BY <4>1, FS_EmptySet
    <3>2. \A s \in Up(0) : CountBody(h, votes, base, cons, s) = base
      BY <3>1 DEF CountBody
    <3>3. CountsOver(h, votes, base, cons, Up(0))
      <4> HIDE DEF Up
      <4> QED BY <3>2 DEF CountsOver
    <3> QED BY Zenon, <3>3, <2>3
  <2>4. CASE m # 0
    <3>1. m - 1 \in Nat /\ m - 1 \notin Bad
      <4>1. m - 1 \in Nat
        BY <2>2, <2>4
      <4>2. ~(m <= m - 1)
        BY <2>2
      <4> HIDE DEF Bad
      <4> QED BY <4>1, <4>2, <2>1
    <3>2. PICK h : CountsOver(h, votes, base, cons, Up(m - 1))
      BY Zenon, <3>1
    <3> DEFINE k == [s \in Up(m) |-> CountBody(h, votes, base, cons, s)]
    <3>3. ASSUME NEW s \in Up(m)
          PROVE  CountBody(k, votes, base, cons, s) = CountBody(h, votes, base, cons, s)
      <4>1. CASE s = {}
        BY <4>1 DEF CountBody
      <4>2. CASE s # {}
        <5> DEFINE r == s \ {Largest(s)}
        <5>1. r \in Up(m - 1) /\ r \in Up(m)
          <6>1. r \in SUBSET S /\ Cardinality(r) = Cardinality(s) - 1 /\ Cardinality(s) \in Nat
            BY Zenon, <4>2, LargestIn, OneLess
          <6> QED BY <6>1, <2>2
        <5>2. h[r] = CountBody(h, votes, base, cons, r)
          <6> HIDE DEF Up, r
          <6> QED BY <3>2, <5>1 DEF CountsOver
        <5>3. k[r] = CountBody(h, votes, base, cons, r)
          <6> HIDE DEF Up, r
          <6> QED BY <5>1
        <5> HIDE DEF k
        <5> QED BY <4>2, <5>2, <5>3 DEF CountBody
      <4> QED BY <4>1, <4>2
    <3>4. CountsOver(k, votes, base, cons, Up(m))
      <4> HIDE DEF Up
      <4> QED BY <3>3 DEF CountsOver
    <3> QED BY Zenon, <3>4
  <2> QED BY <2>3, <2>4
<1>3. PICK h : CountsOver(h, votes, base, cons, Up(Cardinality(S)))
  <2>1. Cardinality(S) \in Nat
    BY <1>1
  <2> QED BY Zenon, <1>2, <2>1
<1>4. Up(Cardinality(S)) = SUBSET S
  BY FS_Subset
<1> QED BY Zenon, <1>3, <1>4

\* So the loop over some times is its last turn after the loop over the others.
LEMMA CountsStep ==
  ASSUME NEW votes, NEW base, NEW cons, NEW S, IsFiniteSet(S), S \subseteq Nat, NEW s \in SUBSET S
  PROVE  Counts(votes, base, cons, S)[s] =
           CountBody(Counts(votes, base, cons, S), votes, base, cons, s)
<1>1. CountsOver(Counts(votes, base, cons, S), votes, base, cons, SUBSET S)
  <2>1. \E g : CountsOver(g, votes, base, cons, SUBSET S)
    BY Zenon, CountsExist
  <2> QED BY <2>1, Zenon DEF Counts
<1> QED BY <1>1 DEF CountsOver

\* t has more votes than any other time of s, or as many as an earlier one.
Leads(votes, t, s) ==
  \A u \in s : votes[u] < votes[t] \/ (votes[u] = votes[t] /\ u <= t)

\* The loop over s has found nothing large enough, or the time that leads.
Elected(f, votes, thresh, cons, s) ==
  /\ f = [closeTime |-> f.closeTime, threshVote |-> f.threshVote, consensus |-> f.consensus]
  /\ f.consensus \in BOOLEAN
  /\ \/ /\ f.closeTime = 0 /\ f.threshVote = thresh /\ ~f.consensus
        /\ \A u \in s : votes[u] < thresh
     \/ /\ f.closeTime \in s /\ f.threshVote = votes[f.closeTime]
        /\ votes[f.closeTime] >= thresh /\ Leads(votes, f.closeTime, s)
        /\ f.consensus <=> votes[f.closeTime] >= cons

\* One more turn, with a later time than all before.
LEMMA TurnElects ==
  ASSUME NEW s, s \subseteq Nat, NEW votes, \A u \in s : votes[u] \in Nat, NEW thresh \in Nat,
         NEW cons \in Nat, NEW x \in s, \A u \in s : u <= x, NEW f,
         Elected(f, votes, thresh, cons, s \ {x})
  PROVE  Elected(CountCloseTime(f, x, votes[x], cons), votes, thresh, cons, s)
<1> DEFINE g == CountCloseTime(f, x, votes[x], cons)
<1>1. x \in Nat /\ votes[x] \in Nat
  OBVIOUS
<1>2. f.consensus \in BOOLEAN
  BY DEF Elected
<1>3. CASE votes[x] >= f.threshVote
  <2>1. g = [closeTime |-> x, threshVote |-> votes[x],
             consensus |-> f.consensus \/ votes[x] >= cons]
    BY <1>3 DEF CountCloseTime
  <2>2. /\ g.closeTime = x /\ g.threshVote = votes[x]
        /\ g.consensus = (f.consensus \/ votes[x] >= cons)
    BY <2>1
  <2>3. g.consensus \in BOOLEAN
    BY <1>2, <2>2
  <2>4. f.consensus => votes[x] >= cons
    BY <1>1, <1>3 DEF Elected
  <2>5. g.consensus <=> votes[x] >= cons
    BY Zenon, <2>2, <2>4
  <2>6. votes[x] >= thresh /\ Leads(votes, x, s)
    <3>1. CASE f.threshVote = thresh /\ \A u \in s \ {x} : votes[u] < thresh
      BY <1>1, <1>3, <3>1 DEF Leads
    <3>2. CASE /\ f.closeTime \in s \ {x} /\ f.threshVote = votes[f.closeTime]
               /\ votes[f.closeTime] >= thresh /\ Leads(votes, f.closeTime, s \ {x})
      <4>1. votes[f.closeTime] \in Nat /\ votes[x] >= votes[f.closeTime]
        BY Zenon, <1>3, <3>2
      <4>2. \A u \in s \ {x} : votes[u] \in Nat /\ votes[u] <= votes[f.closeTime]
        BY <3>2, <4>1 DEF Leads
      <4>3. ASSUME NEW u \in s
            PROVE  votes[u] < votes[x] \/ (votes[u] = votes[x] /\ u <= x)
        <5>1. votes[u] <= votes[x] /\ votes[u] \in Nat /\ u <= x
          BY <1>1, <4>1, <4>2
        <5> QED BY <1>1, <5>1
      <4> QED BY <1>1, <3>2, <4>1, <4>3 DEF Leads
    <3> QED BY <3>1, <3>2 DEF Elected
  <2>7. g = [closeTime |-> g.closeTime, threshVote |-> g.threshVote, consensus |-> g.consensus]
    BY <2>1
  <2> HIDE DEF g
  <2>8. Elected(g, votes, thresh, cons, s)
    BY Zenon, <2>2, <2>3, <2>5, <2>6, <2>7 DEF Elected
  <2> QED BY <2>8 DEF g
<1>4. CASE ~(votes[x] >= f.threshVote)
  <2>1. g = f
    BY <1>4 DEF CountCloseTime
  <2>2. CASE f.closeTime = 0 /\ f.threshVote = thresh /\ ~f.consensus
             /\ \A u \in s \ {x} : votes[u] < thresh
    <3>1. \A u \in s : votes[u] < thresh
      BY <1>1, <1>4, <2>2
    <3>2. Elected(f, votes, thresh, cons, s)
      BY Zenon, <2>2, <3>1 DEF Elected
    <3> QED BY <2>1, <3>2
  <2>3. CASE /\ f.closeTime \in s \ {x} /\ f.threshVote = votes[f.closeTime]
             /\ votes[f.closeTime] >= thresh /\ Leads(votes, f.closeTime, s \ {x})
             /\ f.consensus <=> votes[f.closeTime] >= cons
    <3>1. votes[x] < votes[f.closeTime]
      <4>1. votes[f.closeTime] \in Nat /\ ~(votes[x] >= votes[f.closeTime])
        BY Zenon, <1>4, <2>3
      <4> QED BY <1>1, <4>1
    <3>2. Leads(votes, f.closeTime, s)
      <4>1. \A u \in s \ {x} : \/ votes[u] < votes[f.closeTime]
                               \/ votes[u] = votes[f.closeTime] /\ u <= f.closeTime
        BY Zenon, <2>3 DEF Leads
      <4> QED BY Zenon, <3>1, <4>1 DEF Leads
    <3>3. Elected(f, votes, thresh, cons, s)
      BY Zenon, <2>3, <3>2 DEF Elected
    <3> QED BY <2>1, <3>3
  <2> QED BY <2>2, <2>3 DEF Elected
<1> QED BY <1>3, <1>4

\* The loop elects.
LEMMA LoopElects ==
  ASSUME NEW votes, NEW S, IsFiniteSet(S), S \subseteq Nat, \A u \in S : votes[u] \in Nat,
         NEW thresh \in Nat, NEW cons \in Nat
  PROVE  Elected(Counts(votes, NoVote(thresh), cons, S)[S], votes, thresh, cons, S)
<1> DEFINE F == Counts(votes, NoVote(thresh), cons, S)
           Bad == {s \in SUBSET S : ~Elected(F[s], votes, thresh, cons, s)}
<1> SUFFICES ASSUME Bad # {} PROVE FALSE
  OBVIOUS
<1>1. PICK s \in Bad : \A t \in SUBSET S : Cardinality(t) < Cardinality(s) => t \notin Bad
  <2>1. Bad \subseteq SUBSET S
    OBVIOUS
  <2> HIDE DEF Bad
  <2> QED BY Zenon, <2>1, SmallestBad
<1>2. s \in SUBSET S /\ ~Elected(F[s], votes, thresh, cons, s)
  OBVIOUS
<1>3. F[s] = CountBody(F, votes, NoVote(thresh), cons, s)
  <2>1. s \in SUBSET S
    BY <1>2
  <2> QED BY ONLY Zenon, <2>1, CountsStep, IsFiniteSet(S), S \subseteq Nat
<1>4. CASE s = {}
  <2>1. F[s] = NoVote(thresh)
    BY <1>3, <1>4 DEF CountBody
  <2>2. Elected(NoVote(thresh), votes, thresh, cons, {})
    BY DEF Elected, NoVote
  <2> QED BY <1>2, <1>4, <2>1, <2>2
<1>5. CASE s # {}
  <2> DEFINE x == Largest(s)
  <2>1. x \in s /\ \A u \in s : u <= x
    BY Zenon, <1>2, <1>5, LargestIn
  <2> HIDE DEF x
  <2>2. s \ {x} \in SUBSET S /\ Cardinality(s \ {x}) = Cardinality(s) - 1 /\ Cardinality(s) \in Nat
    BY Zenon, <1>2, <2>1, OneLess
  <2>3. Cardinality(s \ {x}) < Cardinality(s)
    BY <2>2
  <2>4. Elected(F[s \ {x}], votes, thresh, cons, s \ {x})
    BY <1>1, <2>2, <2>3
  <2>5. F[s] = CountCloseTime(F[s \ {x}], x, votes[x], cons)
    BY Zenon, <1>3, <1>5 DEF CountBody, x
  <2> HIDE DEF F
  <2>6. s \subseteq Nat /\ \A u \in s : votes[u] \in Nat
    BY <1>2
  <2>7. Elected(CountCloseTime(F[s \ {x}], x, votes[x], cons), votes, thresh, cons, s)
    BY Zenon, <2>1, <2>4, <2>6, TurnElects
  <2> QED BY <1>2, <2>5, <2>7
<1> QED BY <1>4, <1>5

\* A group that is enough for consensus is enough to be followed, at any time.
LEMMA Thresholds ==
  ASSUME NEW total \in Nat, NEW p \in Nat
  PROVE  /\ ThreshVote(total, p) \in Nat \ {0} /\ ThreshConsensus(total) \in Nat \ {0}
         /\ ThreshVote(total, p) <= ThreshConsensus(total)
<1>1. NeededCloseTimePct(p) \in {30, 40, 51}
  BY DEF NeededCloseTimePct
<1>2. CASE NeededCloseTimePct(p) = 30
  BY <1>2 DEF ThreshVote, ThreshConsensus, ComputePercent, AV_CT_CONSENSUS_PCT
<1>3. CASE NeededCloseTimePct(p) = 40
  BY <1>3 DEF ThreshVote, ThreshConsensus, ComputePercent, AV_CT_CONSENSUS_PCT
<1>4. CASE NeededCloseTimePct(p) = 51
  BY <1>4 DEF ThreshVote, ThreshConsensus, ComputePercent, AV_CT_CONSENSUS_PCT
<1> QED BY <1>1, <1>2, <1>3, <1>4

\* The vote is for no time if no group is large enough to be followed, and otherwise
\* for the time that leads, with consensus if its group is large enough for that.
\* The test on close time 0 changes nothing: such a group would have been followed.
LEMMA VoteElects ==
  ASSUME NEW votes, IsFiniteSet(DOMAIN votes), DOMAIN votes \subseteq Nat,
         \A t \in DOMAIN votes : votes[t] \in Nat \ {0}, NEW total \in Nat, NEW p \in Nat
  PROVE  LET vote == CloseTimeVote(votes, total, p)
         IN  \/ /\ vote = [closeTime |-> 0, consensus |-> FALSE]
                /\ \A u \in DOMAIN votes : votes[u] < ThreshVote(total, p)
             \/ /\ vote.closeTime \in DOMAIN votes
                /\ votes[vote.closeTime] >= ThreshVote(total, p)
                /\ Leads(votes, vote.closeTime, DOMAIN votes)
                /\ vote.consensus <=> votes[vote.closeTime] >= ThreshConsensus(total)
                /\ vote.consensus \in BOOLEAN
<1> DEFINE D == DOMAIN votes
           f == Final(votes, total, p)
           thresh == ThreshVote(total, p)
           cons == ThreshConsensus(total)
           zero == IF 0 \in D THEN votes[0] ELSE 0
           vote == CloseTimeVote(votes, total, p)
<1>1. thresh \in Nat /\ cons \in Nat /\ thresh <= cons /\ cons # 0
  BY Thresholds
<1>2. {t \in D : votes[t] > 0} = D
  OBVIOUS
<1>3. f = Counts(votes, NoVote(thresh), cons, D)[D]
  BY Zenon, <1>2 DEF Final
<1>4. vote = IF ~f.consensus /\ zero > cons
               THEN [closeTime |-> 0, consensus |-> TRUE]
               ELSE [closeTime |-> f.closeTime, consensus |-> f.consensus]
  BY Zenon, VoteUnfold
<1> HIDE DEF f, thresh, cons, vote
<1>5. IsFiniteSet(D) /\ D \subseteq Nat /\ \A u \in D : votes[u] \in Nat
  OBVIOUS
<1> HIDE DEF D
<1>6. Elected(f, votes, thresh, cons, D)
  BY Zenon, <1>1, <1>3, <1>5, LoopElects
<1>7. ~(~f.consensus /\ zero > cons)
  <2> SUFFICES ASSUME ~f.consensus, zero > cons PROVE FALSE
    OBVIOUS
  <2>1. 0 \in D /\ votes[0] > cons /\ votes[0] \in Nat
    BY <1>1, <1>5
  <2>2. ~(votes[0] < thresh)
    BY <1>1, <2>1
  <2>3. /\ f.closeTime \in D /\ Leads(votes, f.closeTime, D)
        /\ ~(votes[f.closeTime] >= cons)
    BY Zenon, <1>6, <2>1, <2>2 DEF Elected
  <2>4. \/ votes[0] < votes[f.closeTime]
        \/ votes[0] = votes[f.closeTime] /\ 0 <= f.closeTime
    BY Zenon, <2>1, <2>3 DEF Leads
  <2>5. votes[f.closeTime] \in Nat
    BY Zenon, <1>5, <2>3
  <2> QED BY <1>1, <2>1, <2>3, <2>4, <2>5
<1>8. vote = [closeTime |-> f.closeTime, consensus |-> f.consensus]
  BY Zenon, <1>4, <1>7
<1>9. vote.closeTime = f.closeTime /\ vote.consensus = f.consensus
  BY <1>8
<1>10. CASE f.closeTime = 0 /\ ~f.consensus /\ \A u \in D : votes[u] < thresh
  <2>1. f.consensus = FALSE
    BY Zenon, <1>6, <1>10 DEF Elected
  <2>2. vote = [closeTime |-> 0, consensus |-> FALSE]
    BY Zenon, <1>8, <1>10, <2>1
  <2> QED BY Zenon, <1>10, <2>2 DEF D, thresh, vote
<1>11. CASE /\ f.closeTime \in D /\ votes[f.closeTime] >= thresh /\ Leads(votes, f.closeTime, D)
            /\ f.consensus <=> votes[f.closeTime] >= cons
  <2>1. f.consensus \in BOOLEAN
    BY <1>6 DEF Elected
  <2> QED BY Zenon, <1>9, <1>11, <2>1 DEF D, thresh, cons, vote
<1> QED BY Zenon, <1>6, <1>10, <1>11 DEF Elected

-----------------------------------------------------------------------------
(* The groups of the nodes. *)

Group(c, r, t) == {n \in Nodes : RoundCloseTime(c[n], r) = t}
VotesOf(c, r) == [t \in {RoundCloseTime(c[n], r) : n \in Nodes} |-> Cardinality(Group(c, r, t))]

\* Every group has at least one node, and there are finitely many.
LEMMA Groups ==
  ASSUME NEW c \in [Nodes -> Nat], NEW r \in Resolutions
  PROVE  LET votes == VotesOf(c, r)
         IN  /\ IsFiniteSet(DOMAIN votes) /\ DOMAIN votes \subseteq Nat
             /\ \A n \in Nodes : RoundCloseTime(c[n], r) \in DOMAIN votes
             /\ \A t \in DOMAIN votes : Group(c, r, t) # {} /\ RoundCloseTime(t, r) = t
             /\ \A t \in DOMAIN votes : votes[t] = Cardinality(Group(c, r, t))
             /\ \A t \in DOMAIN votes : votes[t] \in Nat \ {0}
<1> DEFINE votes == VotesOf(c, r)
           D == DOMAIN votes
           f == [n \in Nodes |-> RoundCloseTime(c[n], r)]
<1>1. \A n \in Nodes : c[n] \in Nat
  OBVIOUS
<1>2. \A n \in Nodes : /\ RoundCloseTime(c[n], r) \in Nat
                       /\ RoundCloseTime(RoundCloseTime(c[n], r), r) = RoundCloseTime(c[n], r)
  BY <1>1, RoundTwice
<1>3. D = {RoundCloseTime(c[n], r) : n \in Nodes}
  BY DEF VotesOf
<1>4. \A t \in D : votes[t] = Cardinality(Group(c, r, t))
  BY Zenon, <1>3 DEF VotesOf
<1> HIDE DEF votes
<1>5. \A n \in Nodes : RoundCloseTime(c[n], r) \in D
  BY Zenon, <1>3
<1> HIDE DEF D
<1>6. IsFiniteSet(D)
  <2>1. f \in Surjection(Nodes, D)
    BY <1>3, <1>5 DEF Surjection
  <2> HIDE DEF f
  <2> QED BY Zenon, <2>1, FS_Surjection, NodesAssumption
<1>7. ASSUME NEW t \in D
      PROVE  /\ t \in Nat /\ Group(c, r, t) # {} /\ RoundCloseTime(t, r) = t
             /\ votes[t] \in Nat \ {0}
  <2>1. t \in Nat /\ RoundCloseTime(t, r) = t
    BY Zenon, <1>2, <1>3
  <2>2. IsFiniteSet(Group(c, r, t))
    BY NodesAssumption, FS_Subset DEF Group
  <2>3. Group(c, r, t) # {}
    BY <1>3 DEF Group
  <2>4. Cardinality(Group(c, r, t)) \in Nat \ {0}
    BY <2>2, <2>3, FS_CardinalityType, FS_EmptySet
  <2> QED BY Zenon, <1>4, <2>1, <2>3, <2>4
<1>8. D \subseteq Nat
  BY <1>7
<1> QED BY Zenon, <1>4, <1>5, <1>6, <1>7, <1>8 DEF votes, D

\* A node that moves to the time that leads makes it lead by more.
LEMMA Joining ==
  ASSUME NEW c \in [Nodes -> Nat], NEW r \in Resolutions, NEW n \in Nodes,
         NEW t \in DOMAIN VotesOf(c, r), Leads(VotesOf(c, r), t, DOMAIN VotesOf(c, r))
  PROVE  LET d == [c EXCEPT ![n] = t]
         IN  /\ t \in DOMAIN VotesOf(d, r) /\ Leads(VotesOf(d, r), t, DOMAIN VotesOf(d, r))
             /\ VotesOf(d, r)[t] >= VotesOf(c, r)[t]
<1> DEFINE d == [c EXCEPT ![n] = t]
           before == VotesOf(c, r)
           after == VotesOf(d, r)
<1>1. /\ DOMAIN before \subseteq Nat
      /\ \A u \in DOMAIN before : RoundCloseTime(u, r) = u
      /\ \A u \in DOMAIN before : before[u] = Cardinality(Group(c, r, u))
      /\ \A u \in DOMAIN before : before[u] \in Nat \ {0}
  BY Zenon, Groups
<1>2. t \in Nat /\ RoundCloseTime(t, r) = t
  BY <1>1
<1>3. /\ d \in [Nodes -> Nat] /\ d[n] = t
      /\ \A m \in Nodes \ {n} : d[m] = c[m]
  BY <1>2
<1>4. /\ DOMAIN after \subseteq Nat
      /\ \A m \in Nodes : RoundCloseTime(d[m], r) \in DOMAIN after
      /\ \A u \in DOMAIN after : Group(d, r, u) # {}
      /\ \A u \in DOMAIN after : after[u] = Cardinality(Group(d, r, u))
      /\ \A u \in DOMAIN after : after[u] \in Nat \ {0}
  BY Zenon, <1>3, Groups
<1>5. t \in DOMAIN after
  BY Zenon, <1>2, <1>3, <1>4
<1>6. \A u : IsFiniteSet(Group(c, r, u)) /\ IsFiniteSet(Group(d, r, u))
  BY NodesAssumption, FS_Subset DEF Group
<1>7. Group(c, r, t) \subseteq Group(d, r, t)
  <2> HIDE DEF d
  <2> QED BY <1>2, <1>3 DEF Group
<1>8. after[t] >= before[t]
  <2>1. Cardinality(Group(c, r, t)) <= Cardinality(Group(d, r, t))
    BY Zenon, <1>6, <1>7, FS_Subset
  <2>2. before[t] = Cardinality(Group(c, r, t)) /\ after[t] = Cardinality(Group(d, r, t))
    BY Zenon, <1>1, <1>4, <1>5
  <2>3. before[t] <= after[t]
    BY Zenon, <2>1, <2>2
  <2>4. before[t] \in Nat /\ after[t] \in Nat
    BY Zenon, <1>1, <1>4, <1>5
  <2> HIDE DEF before, after
  <2> QED BY <2>3, <2>4
<1>9. ASSUME NEW u \in DOMAIN after
      PROVE  after[u] < after[t] \/ (after[u] = after[t] /\ u <= t)
  <2>1. CASE u = t
    <3>1. u <= t
      BY <1>2, <2>1
    <3> QED BY Zenon, <2>1, <3>1
  <2>2. CASE u # t
    <3>1. Group(d, r, u) \subseteq Group(c, r, u)
      <4> HIDE DEF d
      <4> QED BY <1>2, <1>3, <2>2 DEF Group
    <3>2. PICK m \in Group(c, r, u) : TRUE
      BY Zenon, <1>4, <3>1
    <3>3. u \in DOMAIN before
      BY <3>2 DEF VotesOf, Group
    <3>4. Cardinality(Group(d, r, u)) <= Cardinality(Group(c, r, u))
      BY Zenon, <1>6, <3>1, FS_Subset
    <3>5. before[u] = Cardinality(Group(c, r, u)) /\ after[u] = Cardinality(Group(d, r, u))
      BY Zenon, <1>1, <1>4, <3>3
    <3>6. after[u] <= before[u]
      BY Zenon, <3>4, <3>5
    <3>7. before[u] < before[t] \/ (before[u] = before[t] /\ u <= t)
      BY Zenon, <3>3 DEF Leads
    <3>8. before[u] \in Nat /\ after[u] \in Nat /\ before[t] \in Nat /\ after[t] \in Nat
      BY Zenon, <1>1, <1>4, <1>5, <3>3
    <3> HIDE DEF before, after
    <3> QED BY <1>8, <3>6, <3>7, <3>8
  <2> QED BY <2>1, <2>2
<1> QED BY Zenon, <1>5, <1>8, <1>9 DEF Leads

-----------------------------------------------------------------------------
(* The rounds. *)

\* What makes the close times of the nodes that are done agree: once a node is done,
\* the time it left with leads, with enough nodes for consensus, and everybody
\* who is done has it.  All that the others can do is to join.
Agreed(t) ==
  /\ t \in DOMAIN Votes /\ Leads(Votes, t, DOMAIN Votes)
  /\ Votes[t] >= ThreshConsensus(Cardinality(Nodes))
  /\ \A m \in Nodes : done[m] => Round(ct[m]) = t

CloseTimeInv ==
  /\ TypeOK /\ resolution \in Resolutions
  /\ (\E m \in Nodes : done[m]) => \E t : Agreed(t)

\* The counted close times, before a step and after.
LEMMA VotesAre == Votes = VotesOf(ct, resolution) /\ Votes' = VotesOf(ct', resolution')
  BY DEF Votes, VotesOf, Round, Group

\* In a state of the invariant the vote is what VoteElects says.
LEMMA NodesElect ==
  ASSUME CloseTimeInv, NEW p \in Percents \cup {0}
  PROVE  LET vote == CloseTimeVote(Votes, Cardinality(Nodes), p)
             total == Cardinality(Nodes)
         IN  /\ \/ /\ vote = [closeTime |-> 0, consensus |-> FALSE]
                   /\ \A u \in DOMAIN Votes : Votes[u] < ThreshVote(total, p)
                \/ /\ vote.closeTime \in DOMAIN Votes
                   /\ Votes[vote.closeTime] >= ThreshVote(total, p)
                   /\ Leads(Votes, vote.closeTime, DOMAIN Votes)
                   /\ vote.consensus <=> Votes[vote.closeTime] >= ThreshConsensus(total)
                   /\ vote.consensus \in BOOLEAN
             /\ DOMAIN Votes \subseteq Nat /\ \A t \in DOMAIN Votes : Votes[t] \in Nat
             /\ ThreshVote(total, p) \in Nat /\ ThreshConsensus(total) \in Nat
             /\ ThreshVote(total, p) <= ThreshConsensus(total)
<1>1. ct \in [Nodes -> Nat] /\ resolution \in Resolutions /\ Votes = VotesOf(ct, resolution)
  BY VotesAre DEF CloseTimeInv, TypeOK
<1>2. /\ IsFiniteSet(DOMAIN Votes) /\ DOMAIN Votes \subseteq Nat
      /\ \A t \in DOMAIN Votes : Votes[t] \in Nat \ {0}
  BY Zenon, <1>1, Groups
<1>3. Cardinality(Nodes) \in Nat /\ p \in Nat
  BY NodesAssumption, PercentsAssumption, FS_CardinalityType
<1>4. /\ ThreshVote(Cardinality(Nodes), p) \in Nat /\ ThreshConsensus(Cardinality(Nodes)) \in Nat
      /\ ThreshVote(Cardinality(Nodes), p) <= ThreshConsensus(Cardinality(Nodes))
  BY Zenon, <1>3, Thresholds
<1>5. \A t \in DOMAIN Votes : Votes[t] \in Nat
  BY <1>2
<1> HIDE DEF Votes
<1> QED BY Zenon, <1>2, <1>3, <1>4, <1>5, VoteElects

\* Only one time leads.
LEMMA OneLeads ==
  ASSUME NEW votes, DOMAIN votes \subseteq Nat, \A t \in DOMAIN votes : votes[t] \in Nat,
         NEW t \in DOMAIN votes, NEW u \in DOMAIN votes,
         Leads(votes, t, DOMAIN votes), Leads(votes, u, DOMAIN votes)
  PROVE  t = u
<1>1. /\ t \in Nat /\ u \in Nat /\ votes[t] \in Nat /\ votes[u] \in Nat
      /\ votes[u] < votes[t] \/ (votes[u] = votes[t] /\ u <= t)
      /\ votes[t] < votes[u] \/ (votes[t] = votes[u] /\ t <= u)
  BY DEF Leads
<1> QED BY <1>1

\* Moving to the time voted for keeps the invariant.
LEMMA UpdateAgrees ==
  ASSUME CloseTimeInv, NEW n \in Nodes, NEW agreed \in BOOLEAN, Update(n, agreed)
  PROVE  CloseTimeInv'
<1> DEFINE total == Cardinality(Nodes)
           vote == CloseTimeVote(Votes, total, percent)
<1>1. /\ ~done[n] /\ ct' = [ct EXCEPT ![n] = vote.closeTime]
      /\ done' = [done EXCEPT ![n] = vote.consensus /\ agreed]
      /\ resolution' = resolution /\ phase' = phase /\ percent' = percent
  BY DEF Update
<1>2. /\ resolution \in Resolutions /\ ct \in [Nodes -> Nat] /\ done \in [Nodes -> BOOLEAN]
      /\ percent \in Percents \cup {0} /\ TypeOK
  BY DEF CloseTimeInv, TypeOK
<1>3. /\ \/ /\ vote = [closeTime |-> 0, consensus |-> FALSE]
            /\ \A u \in DOMAIN Votes : Votes[u] < ThreshVote(total, percent)
         \/ /\ vote.closeTime \in DOMAIN Votes
            /\ Votes[vote.closeTime] >= ThreshVote(total, percent)
            /\ Leads(Votes, vote.closeTime, DOMAIN Votes)
            /\ vote.consensus <=> Votes[vote.closeTime] >= ThreshConsensus(total)
            /\ vote.consensus \in BOOLEAN
      /\ DOMAIN Votes \subseteq Nat /\ \A t \in DOMAIN Votes : Votes[t] \in Nat
      /\ ThreshVote(total, percent) \in Nat /\ ThreshConsensus(total) \in Nat
      /\ ThreshVote(total, percent) <= ThreshConsensus(total)
  BY Zenon, <1>2, NodesElect
<1>4. Votes = VotesOf(ct, resolution) /\ Votes' = VotesOf(ct', resolution')
  BY Zenon, VotesAre
<1> DEFINE T == vote.closeTime
<1> HIDE DEF vote, total
<1>5. vote.consensus \in BOOLEAN /\ T \in Nat
  <2>1. CASE vote = [closeTime |-> 0, consensus |-> FALSE]
    BY <2>1
  <2>2. CASE vote.closeTime \in DOMAIN Votes /\ vote.consensus \in BOOLEAN
    BY <1>3, <2>2
  <2> QED BY Zenon, <1>3, <2>1, <2>2
<1>6. TypeOK'
  <2>1. ct' \in [Nodes -> Nat] /\ done' \in [Nodes -> BOOLEAN]
    BY <1>1, <1>2, <1>5
  <2> QED BY <1>1, <1>2, <2>1 DEF TypeOK
<1>7. ASSUME NEW u, Agreed(u) PROVE vote.consensus /\ u = T
  <2>1. u \in DOMAIN Votes /\ Votes[u] >= ThreshConsensus(total) /\ Leads(Votes, u, DOMAIN Votes)
    BY Zenon, <1>7 DEF Agreed, total
  <2>2. Votes[u] \in Nat
    BY Zenon, <1>3, <2>1
  <2>3. ~(Votes[u] < ThreshVote(total, percent))
    BY <1>3, <2>1, <2>2
  <2>4. /\ T \in DOMAIN Votes /\ Leads(Votes, T, DOMAIN Votes)
        /\ vote.consensus <=> Votes[T] >= ThreshConsensus(total)
    BY Zenon, <1>3, <2>1, <2>3
  <2> HIDE DEF T
  <2>5. u = T
    BY Zenon, <1>3, <2>1, <2>4, OneLeads
  <2> QED BY Zenon, <2>1, <2>4, <2>5
<1>8. ASSUME NEW m \in Nodes, done'[m] PROVE vote.consensus
  <2>1. CASE m = n
    BY Zenon, <1>1, <1>2, <1>8, <2>1
  <2>2. CASE m # n
    <3>1. done[m]
      BY <1>1, <1>2, <1>8, <2>2
    <3>2. PICK u : Agreed(u)
      BY Zenon, <3>1 DEF CloseTimeInv
    <3> QED BY Zenon, <1>7, <3>2
  <2> QED BY <2>1, <2>2
<1>9. ASSUME NEW t, t = T, vote.consensus PROVE Agreed(t)'
  <2>1. /\ t \in DOMAIN Votes /\ Leads(Votes, t, DOMAIN Votes)
        /\ Votes[t] >= ThreshConsensus(total)
    <3>1. vote # [closeTime |-> 0, consensus |-> FALSE]
      BY <1>9
    <3> QED BY Zenon, <1>3, <1>9, <3>1
  <2>2. ct' = [ct EXCEPT ![n] = t]
    BY Zenon, <1>1, <1>9
  <2>3. /\ t \in DOMAIN Votes' /\ Leads(Votes', t, DOMAIN Votes') /\ Votes'[t] >= Votes[t]
    <3>1. t \in DOMAIN VotesOf(ct, resolution)
      BY Zenon, <1>4, <2>1
    <3>2. Leads(VotesOf(ct, resolution), t, DOMAIN VotesOf(ct, resolution))
      BY Zenon, <1>4, <2>1
    <3>3. /\ t \in DOMAIN VotesOf(ct', resolution)
          /\ Leads(VotesOf(ct', resolution), t, DOMAIN VotesOf(ct', resolution))
          /\ VotesOf(ct', resolution)[t] >= VotesOf(ct, resolution)[t]
      BY Zenon, <1>2, <2>2, <3>1, <3>2, Joining
    <3>4. Votes' = VotesOf(ct', resolution)
      BY Zenon, <1>1, <1>4
    <3> QED BY Zenon, <1>4, <3>3, <3>4
  <2>4. RoundCloseTime(t, resolution) = t
    BY Zenon, <1>2, <1>4, <2>1, Groups
  <2>5. Votes'[t] \in Nat
    <3>1. ct' \in [Nodes -> Nat] /\ resolution' \in Resolutions
      BY Zenon, <1>1, <1>2, <1>6 DEF TypeOK
    <3>2. Votes'[t] \in Nat \ {0}
      BY Zenon, <1>4, <2>3, <3>1, Groups
    <3> QED BY <3>2
  <2>6. Votes'[t] >= ThreshConsensus(total)
    BY <1>3, <2>1, <2>3, <2>5
  <2>7. ASSUME NEW m \in Nodes, done'[m] PROVE RoundCloseTime(ct'[m], resolution') = t
    <3>1. CASE m = n
      <4>1. ct'[m] = t
        BY <1>2, <2>2, <3>1
      <4> QED BY Zenon, <1>1, <2>4, <4>1
    <3>2. CASE m # n
      <4>1. done[m] /\ ct'[m] = ct[m]
        BY <1>1, <1>2, <2>2, <2>7, <3>2
      <4>2. PICK u : Agreed(u)
        BY Zenon, <4>1 DEF CloseTimeInv
      <4>3. u = t
        BY Zenon, <1>7, <1>9, <4>2
      <4>4. RoundCloseTime(ct[m], resolution) = u
        BY Zenon, <4>1, <4>2 DEF Agreed, Round
      <4> QED BY Zenon, <1>1, <4>1, <4>3, <4>4
    <3> QED BY <3>1, <3>2
  <2> QED BY Zenon, <2>3, <2>6, <2>7 DEF Agreed, Round, total
<1>10. (\E m \in Nodes : done'[m]) => \E t : Agreed(t)'
  BY Zenon, <1>8, <1>9
<1> QED BY Zenon, <1>1, <1>2, <1>6, <1>10 DEF CloseTimeInv

\* Nobody is done at the start.
LEMMA CloseTimeInit == Init => CloseTimeInv
<1> SUFFICES ASSUME Init PROVE CloseTimeInv
  OBVIOUS
<1>1. TypeOK /\ resolution \in Resolutions
  <2>1. ct \in [Nodes -> Nat] /\ done \in [Nodes -> BOOLEAN]
    BY Zenon, ClocksAssumption DEF Init
  <2>2. resolution = 30 /\ phase = 1 /\ percent = 0
    BY DEF Init
  <2> QED BY <2>1, <2>2 DEF TypeOK, Resolutions, LEDGER_RES_INCREASE
<1>2. \A m \in Nodes : ~done[m]
  BY DEF Init
<1> QED BY <1>1, <1>2 DEF CloseTimeInv

\* Every step keeps the invariant.
LEMMA CloseTimeNext == CloseTimeInv /\ [Next]_vars => CloseTimeInv'
<1> SUFFICES ASSUME CloseTimeInv, [Next]_vars PROVE CloseTimeInv'
  OBVIOUS
<1>1. TypeOK /\ resolution \in Resolutions
  BY DEF CloseTimeInv
<1>2. ASSUME NEW n \in Nodes, NEW agreed \in BOOLEAN, Update(n, agreed) PROVE CloseTimeInv'
  BY Zenon, <1>2, UpdateAgrees
<1>3. ASSUME NEW p \in Percents, Tick(p) PROVE CloseTimeInv'
  <2>1. percent' = p /\ UNCHANGED <<resolution, phase, ct, done>>
    BY Zenon, <1>3 DEF Tick, PercentGrows
  <2>2. TypeOK' /\ resolution' \in Resolutions
    BY <1>1, <2>1 DEF TypeOK
  <2>3. Votes' = Votes /\ \A m \in Nodes : Round(ct[m])' = Round(ct[m])
    BY Zenon, <2>1 DEF Votes, Round
  <2>4. \A t : Agreed(t) => Agreed(t)'
    BY Zenon, <2>1, <2>3 DEF Agreed
  <2> QED BY Zenon, <2>1, <2>2, <2>4 DEF CloseTimeInv
<1>4. ASSUME NEW n \in Nodes, NextLedger(n) PROVE CloseTimeInv'
  <2>1. /\ phase' = (phase + 1) % LEDGER_RES_INCREASE
        /\ resolution' = NextResolution(resolution, Round(ct[n]) # 0, phase')
        /\ ct' \in [Nodes -> Clocks] /\ done' = [m \in Nodes |-> FALSE] /\ percent' = 0
    BY Zenon, <1>4 DEF NextLedger
  <2>2. phase' \in 0 .. (LEDGER_RES_INCREASE - 1)
    BY <1>1, <2>1 DEF TypeOK, LEDGER_RES_INCREASE
  <2>3. phase' \in Nat
    BY <2>2 DEF LEDGER_RES_INCREASE
  <2>4. resolution' \in Resolutions
    BY Zenon, <1>1, <2>1, <2>3, ResolutionStays
  <2>5. TypeOK'
    <3>1. ct' \in [Nodes -> Nat] /\ done' \in [Nodes -> BOOLEAN] /\ percent' \in Percents \cup {0}
      BY Zenon, <2>1, ClocksAssumption
    <3>2. resolution' \in 10 .. 120
      BY <2>4 DEF Resolutions
    <3> QED BY Zenon, <2>2, <3>1, <3>2 DEF TypeOK
  <2>6. \A m \in Nodes : ~done'[m]
    BY <2>1
  <2> QED BY Zenon, <2>4, <2>5, <2>6 DEF CloseTimeInv
<1>5. CASE UNCHANGED vars
  <2>1. UNCHANGED <<resolution, phase, ct, done, percent>>
    BY <1>5 DEF vars
  <2>2. TypeOK' /\ resolution' \in Resolutions
    BY <1>1, <2>1 DEF TypeOK
  <2>3. Votes' = Votes /\ \A m \in Nodes : Round(ct[m])' = Round(ct[m])
    BY Zenon, <2>1 DEF Votes, Round
  <2>4. \A t : Agreed(t) => Agreed(t)'
    BY Zenon, <2>1, <2>3 DEF Agreed
  <2> QED BY Zenon, <2>1, <2>2, <2>4 DEF CloseTimeInv
<1> QED BY <1>2, <1>3, <1>4, <1>5 DEF Next

\* The loop over the counted close times finds the group it is meant to find.
LEMMA LargestGroup == CloseTimeInv => VoteIsLargestGroup
<1> SUFFICES ASSUME CloseTimeInv, NEW p \in Percents \cup {0}
             PROVE  LET total == Cardinality(Nodes)
                        vote == CloseTimeVote(Votes, total, p)
                        valid == {t \in DOMAIN Votes : Votes[t] >= ThreshVote(total, p)}
                        best == {t \in valid : Leads(Votes, t, valid)}
                    IN  IF valid = {} THEN vote = [closeTime |-> 0, consensus |-> FALSE]
                        ELSE /\ best = {vote.closeTime}
                             /\ vote.consensus <=> Votes[vote.closeTime] >= ThreshConsensus(total)
  BY Zenon DEF VoteIsLargestGroup, ThreshVote, ThreshConsensus, Leads
<1> DEFINE total == Cardinality(Nodes)
           vote == CloseTimeVote(Votes, total, p)
           D == DOMAIN Votes
           valid == {t \in D : Votes[t] >= ThreshVote(total, p)}
           best == {t \in valid : Leads(Votes, t, valid)}
<1>1. /\ \/ /\ vote = [closeTime |-> 0, consensus |-> FALSE]
            /\ \A u \in D : Votes[u] < ThreshVote(total, p)
         \/ /\ vote.closeTime \in D
            /\ Votes[vote.closeTime] >= ThreshVote(total, p)
            /\ Leads(Votes, vote.closeTime, D)
            /\ vote.consensus <=> Votes[vote.closeTime] >= ThreshConsensus(total)
            /\ vote.consensus \in BOOLEAN
      /\ D \subseteq Nat /\ \A t \in D : Votes[t] \in Nat
      /\ ThreshVote(total, p) \in Nat
  BY Zenon, NodesElect
<1> HIDE DEF vote, total, D
<1>2. CASE /\ vote = [closeTime |-> 0, consensus |-> FALSE]
           /\ \A u \in D : Votes[u] < ThreshVote(total, p)
  <2>1. valid = {}
    <3>1. ASSUME NEW t \in D PROVE ~(Votes[t] >= ThreshVote(total, p))
      <4>1. Votes[t] \in Nat /\ Votes[t] < ThreshVote(total, p) /\ ThreshVote(total, p) \in Nat
        BY Zenon, <1>1, <1>2
      <4> QED BY <4>1
    <3> QED BY Zenon, <3>1
  <2> QED BY Zenon, <1>2, <2>1 DEF vote, total, D
<1>3. CASE /\ vote.closeTime \in D
           /\ Votes[vote.closeTime] >= ThreshVote(total, p)
           /\ Leads(Votes, vote.closeTime, D)
           /\ vote.consensus <=> Votes[vote.closeTime] >= ThreshConsensus(total)
  <2>1. vote.closeTime \in valid
    BY Zenon, <1>3
  <2>2. Leads(Votes, vote.closeTime, valid)
    BY Zenon, <1>3 DEF Leads
  <2>3. ASSUME NEW t \in best PROVE t = vote.closeTime
    <3>1. t \in D /\ t \in Nat /\ vote.closeTime \in Nat
      BY Zenon, <1>1, <1>3
    <3>2. \/ Votes[vote.closeTime] < Votes[t]
          \/ Votes[vote.closeTime] = Votes[t] /\ vote.closeTime <= t
      BY Zenon, <2>1 DEF Leads
    <3>3. \/ Votes[t] < Votes[vote.closeTime]
          \/ Votes[t] = Votes[vote.closeTime] /\ t <= vote.closeTime
      BY Zenon, <1>3, <3>1 DEF Leads
    <3>4. Votes[t] \in Nat /\ Votes[vote.closeTime] \in Nat
      BY Zenon, <1>1, <1>3, <3>1
    <3> QED BY <3>1, <3>2, <3>3, <3>4
  <2>4. best = {vote.closeTime}
    BY Zenon, <2>1, <2>2, <2>3
  <2>5. valid # {}
    BY Zenon, <2>1
  <2> QED BY Zenon, <1>3, <2>4, <2>5 DEF vote, total, D
<1> QED BY Zenon, <1>1, <1>2, <1>3

\* For any nodes, clocks and times: the resolution stays in the table of
\* getNextLedgerTimeResolution, and the other variables keep their types.
THEOREM CloseTimeTypes == Spec => []TypeOK
<1>1. CloseTimeInv => TypeOK
  BY DEF CloseTimeInv
<1> QED BY <1>1, CloseTimeInit, CloseTimeNext, PTL DEF Spec

\* For any number of nodes and any close times, the loop of updateOurPositions finds
\* the largest group, the latest among equals, and the test on close time 0 never
\* changes what it found.
THEOREM VoteIsAlwaysLargestGroup == Spec => []VoteIsLargestGroup
  BY CloseTimeInit, CloseTimeNext, LargestGroup, PTL DEF Spec

\* For any number of nodes, in whatever order they update: all that are done with close
\* time consensus have the same close time.
THEOREM CloseTimesAlwaysAgree == Spec => []CloseTimesAgree
<1>1. CloseTimeInv => CloseTimesAgree
  BY DEF CloseTimeInv, Agreed, CloseTimesAgree
<1> QED BY <1>1, CloseTimeInit, CloseTimeNext, PTL DEF Spec
-----------------------------------------------------------------------------
(* What the end of a round rests on: a decision is not undone. *)

\* The nodes at close time t are the largest group, large enough for consensus.
Decided(t) ==
  Leads(Votes, t, DOMAIN Votes) /\ Votes[t] >= ThreshConsensus(Cardinality(Nodes))

\* Until the next ledger a decided close time stays decided, however the clocks of
\* the nodes were and however the threshold grows; and every node that updates its
\* position moves to it, and is done if it finds that the peers agree.
DecisionStands ==
  [][\A t \in DOMAIN Votes : Decided(t) =>
       \/ \E m \in Nodes : NextLedger(m)
       \/ /\ t \in DOMAIN Votes' /\ Decided(t)'
          /\ \A n \in Nodes : \A agreed \in BOOLEAN :
               Update(n, agreed) => done'[n] = agreed /\ Round(ct[n])' = t]_vars

\* Whatever the percentage, everybody votes for the decided time.
LEMMA DecidedIsElected ==
  ASSUME CloseTimeInv, NEW t \in DOMAIN Votes, Decided(t)
  PROVE  LET vote == CloseTimeVote(Votes, Cardinality(Nodes), percent)
         IN  vote.closeTime = t /\ vote.consensus = TRUE
<1> DEFINE total == Cardinality(Nodes)
           vote == CloseTimeVote(Votes, total, percent)
<1>1. /\ \/ /\ vote = [closeTime |-> 0, consensus |-> FALSE]
            /\ \A u \in DOMAIN Votes : Votes[u] < ThreshVote(total, percent)
         \/ /\ vote.closeTime \in DOMAIN Votes
            /\ Votes[vote.closeTime] >= ThreshVote(total, percent)
            /\ Leads(Votes, vote.closeTime, DOMAIN Votes)
            /\ vote.consensus <=> Votes[vote.closeTime] >= ThreshConsensus(total)
            /\ vote.consensus \in BOOLEAN
      /\ DOMAIN Votes \subseteq Nat /\ \A u \in DOMAIN Votes : Votes[u] \in Nat
      /\ ThreshVote(total, percent) \in Nat /\ ThreshConsensus(total) \in Nat
      /\ ThreshVote(total, percent) <= ThreshConsensus(total)
  BY Zenon, NodesElect DEF CloseTimeInv, TypeOK
<1>2. Leads(Votes, t, DOMAIN Votes) /\ Votes[t] >= ThreshConsensus(total) /\ Votes[t] \in Nat
  BY Zenon, <1>1 DEF Decided
<1> DEFINE T == vote.closeTime
<1> HIDE DEF vote, total
<1>3. ~(Votes[t] < ThreshVote(total, percent))
  BY <1>1, <1>2
<1>4. /\ T \in DOMAIN Votes /\ Leads(Votes, T, DOMAIN Votes) /\ vote.consensus \in BOOLEAN
      /\ vote.consensus <=> Votes[T] >= ThreshConsensus(total)
  BY Zenon, <1>1, <1>3
<1> HIDE DEF T
<1>5. t = T
  BY Zenon, <1>1, <1>2, <1>4, OneLeads
<1>6. vote.consensus = TRUE
  BY Zenon, <1>2, <1>4, <1>5
<1> QED BY Zenon, <1>5, <1>6 DEF T, vote, total

\* A node that joins the largest group leaves it the largest.
LEMMA UpdateStands ==
  ASSUME CloseTimeInv, NEW t \in DOMAIN Votes, Decided(t),
         NEW n \in Nodes, NEW agreed \in BOOLEAN, Update(n, agreed)
  PROVE  t \in DOMAIN Votes' /\ Decided(t)' /\ done'[n] = agreed /\ Round(ct[n])' = t
<1> DEFINE total == Cardinality(Nodes)
           vote == CloseTimeVote(Votes, total, percent)
<1>1. /\ ct' = [ct EXCEPT ![n] = vote.closeTime] /\ done' = [done EXCEPT ![n] = vote.consensus /\ agreed]
      /\ resolution' = resolution
  BY DEF Update
<1>2. /\ resolution \in Resolutions /\ ct \in [Nodes -> Nat] /\ done \in [Nodes -> BOOLEAN]
  BY DEF CloseTimeInv, TypeOK
<1>3. vote.closeTime = t /\ vote.consensus = TRUE
  BY Zenon, DecidedIsElected
<1> HIDE DEF vote
<1>4. ct' = [ct EXCEPT ![n] = t]
  BY Zenon, <1>1, <1>3
<1>5. Votes = VotesOf(ct, resolution) /\ Votes' = VotesOf(ct', resolution)
  BY Zenon, <1>1, VotesAre
<1>6. /\ t \in DOMAIN VotesOf(ct, resolution)
      /\ Leads(VotesOf(ct, resolution), t, DOMAIN VotesOf(ct, resolution))
      /\ Votes[t] >= ThreshConsensus(total)
  BY Zenon, <1>5 DEF Decided
<1>7. /\ t \in DOMAIN VotesOf(ct', resolution)
      /\ Leads(VotesOf(ct', resolution), t, DOMAIN VotesOf(ct', resolution))
      /\ VotesOf(ct', resolution)[t] >= VotesOf(ct, resolution)[t]
  BY Zenon, <1>2, <1>4, <1>6, Joining
<1>8. /\ t \in DOMAIN Votes' /\ Leads(Votes', t, DOMAIN Votes') /\ Votes'[t] >= Votes[t]
  BY Zenon, <1>5, <1>7
<1>9. Votes'[t] >= ThreshConsensus(total)
  <2>1. t \in Nat /\ RoundCloseTime(t, resolution) = t
    BY Zenon, <1>2, <1>5, <1>6, Groups
  <2>2. ct' \in [Nodes -> Nat]
    BY <1>2, <1>4, <2>1
  <2>3. Votes[t] \in Nat \ {0} /\ Votes'[t] \in Nat \ {0}
    BY Zenon, <1>2, <1>5, <1>8, <2>2, Groups
  <2>4. total \in Nat
    BY NodesAssumption, FS_CardinalityType
  <2>5. ThreshConsensus(total) \in Nat
    BY Zenon, <1>2, <2>4, NodesElect, PercentsAssumption DEF CloseTimeInv, TypeOK
  <2> QED BY <1>6, <1>8, <2>3, <2>5
<1>10. Decided(t)'
  BY Zenon, <1>8, <1>9 DEF Decided
<1>11. Round(ct[n])' = t
  <2>1. ct'[n] = t
    BY <1>2, <1>4
  <2>2. RoundCloseTime(t, resolution) = t
    BY Zenon, <1>2, <1>5, <1>6, Groups
  <2> QED BY Zenon, <1>1, <2>1, <2>2 DEF Round
<1>12. done'[n] = agreed
  BY Zenon, <1>1, <1>2, <1>3
<1> QED BY Zenon, <1>8, <1>10, <1>11, <1>12

\* For any number of nodes, clocks and times: once a close time is decided, every
\* later update of the round joins it, so that nobody can be left without it.
THEOREM DecisionsStand == Spec => DecisionStands
<1>1. ASSUME CloseTimeInv, [Next]_vars, NEW t \in DOMAIN Votes, Decided(t)
      PROVE  \/ \E m \in Nodes : NextLedger(m)
             \/ /\ t \in DOMAIN Votes' /\ Decided(t)'
                /\ \A n \in Nodes : \A agreed \in BOOLEAN :
                     Update(n, agreed) => done'[n] = agreed /\ Round(ct[n])' = t
  <2>1. ASSUME NEW n \in Nodes, NEW agreed \in BOOLEAN, Update(n, agreed)
        PROVE  t \in DOMAIN Votes' /\ Decided(t)' /\ done'[n] = agreed /\ Round(ct[n])' = t
    BY Zenon, <1>1, <2>1, UpdateStands
  <2>2. CASE UNCHANGED <<resolution, ct>>
    <3>1. Votes' = Votes
      BY Zenon, <2>2 DEF Votes, Round
    <3>2. t \in DOMAIN Votes' /\ Decided(t)'
      BY Zenon, <1>1, <3>1 DEF Decided
    <3> QED BY Zenon, <2>1, <3>2
  <2>3. CASE \E n \in Nodes, agreed \in BOOLEAN : Update(n, agreed)
    BY Zenon, <2>1, <2>3
  <2>4. CASE (\E p \in Percents : Tick(p)) \/ UNCHANGED vars
    <3>1. UNCHANGED <<resolution, ct>>
      BY <2>4 DEF Tick, vars
    <3> QED BY <2>2, <3>1
  <2>5. CASE \E m \in Nodes : NextLedger(m)
    BY <2>5
  <2> QED BY Zenon, <1>1, <2>3, <2>4, <2>5 DEF Next
<1>2. CloseTimeInv /\ [Next]_vars =>
        [\A t \in DOMAIN Votes : Decided(t) =>
           \/ \E m \in Nodes : NextLedger(m)
           \/ /\ t \in DOMAIN Votes' /\ Decided(t)'
              /\ \A n \in Nodes : \A agreed \in BOOLEAN :
                   Update(n, agreed) => done'[n] = agreed /\ Round(ct[n])' = t]_vars
  BY Zenon, <1>1
<1> QED BY <1>2, CloseTimeInit, CloseTimeNext, PTL DEF Spec, DecisionStands
=============================================================================

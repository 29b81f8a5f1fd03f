------------------------ MODULE ConsensusVotesProofs ------------------------
(***************************************************************************)
(* The votes on the disputes of a consensus round, for any peers,           *)
(* transactions, ledgers and bounds: the votes of the peers are what their  *)
(* sets say, and ours what our position says.  What an observer makes of    *)
(* them: it joins peers that agree.                                         *)
(***************************************************************************)
EXTENDS LedgerConsensusProofs

\* On every dispute of d, the peers of K vote as the sets they hold in pos say.
Follows(d, K, pos) ==
  \A t \in AllTx : d[t] # NoDispute =>
    \A p \in K : p \in (IF t \in pos[p].set THEN d[t].yes ELSE d[t].no)

\* Our votes are those of the set ours.
VotesAre(d, ours) == \A t \in AllTx : d[t] # NoDispute => d[t].ourVote = (t \in ours)

SetsIn(pos) == \A p \in Peers : pos[p].set \in AllSets

\* Before the ledger closes there are no disputes; then the votes follow the sets,
\* and ours our position.
SetInv ==
  /\ acquired = [s \in AllSets |-> acquired[s]] /\ SetsIn(positions)
  /\ state = "PRE_CLOSE" => \A t \in AllTx : disputes[t] = NoDispute
  /\ ~crashed => Follows(disputes, Known(acquired, positions), positions)
  /\ our # NoPosition /\ our.seq # Leave => VotesAre(disputes, our.set)

\* What is stored for a replay are proposals.
ReplayInv == stored \in [Peers -> Seq(Proposals)] /\ replay \in [Peers -> Seq(Proposals)]

\* What adjustCount does to one dispute.
LEMMA AdjustVotes ==
  ASSUME NEW d, NEW pos, NEW s, NEW P \in SUBSET Peers, VotesOK(d, pos),
         NEW t \in AllTx, d[t] # NoDispute
  PROVE  /\ AdjustCount(d, s, P)[t].ourVote = d[t].ourVote
         /\ t \in s => /\ AdjustCount(d, s, P)[t].yes = d[t].yes \cup P
                       /\ AdjustCount(d, s, P)[t].no = d[t].no \ P
         /\ t \notin s => /\ AdjustCount(d, s, P)[t].yes = d[t].yes \ P
                          /\ AdjustCount(d, s, P)[t].no = d[t].no \cup P
<1> DEFINE e == AdjustCount(d, s, P)
<1>1. e[t] = IF t \in s THEN VoteYes(d[t], P) ELSE VoteNo(d[t], P)
  BY DEF AdjustCount, SetVotes, VotesOK
<1> HIDE DEF e
<1>2. Counted(d[t], Peers)
  BY DEF VotesOK
<1>3. /\ VoteYes(d[t], P).ourVote = d[t].ourVote
      /\ VoteYes(d[t], P).yes = d[t].yes \cup P /\ VoteYes(d[t], P).no = d[t].no \ P
  BY <1>2, VoteYesCounted, PeersAssumption
<1>4. /\ VoteNo(d[t], P).ourVote = d[t].ourVote
      /\ VoteNo(d[t], P).yes = d[t].yes \ P /\ VoteNo(d[t], P).no = d[t].no \cup P
  BY <1>2, VoteNoCounted, PeersAssumption
<1>5. CASE t \in s
  BY Zenon, <1>1, <1>3, <1>5 DEF e
<1>6. CASE t \notin s
  BY Zenon, <1>1, <1>4, <1>6 DEF e
<1> QED BY <1>5, <1>6

\* adjustCount starts no dispute.
LEMMA AdjustNone ==
  ASSUME NEW d, NEW pos, NEW s, NEW P, VotesOK(d, pos), NEW t \in AllTx, d[t] = NoDispute
  PROVE  AdjustCount(d, s, P)[t] = NoDispute
  BY DEF AdjustCount, VotesOK

\* adjustCount of peers that hold the set s adds them to those that are followed.
LEMMA AdjustFollows ==
  ASSUME NEW d, NEW pos, NEW s, NEW K, NEW P, VotesOK(d, pos), P \subseteq Holders(pos, s),
         Follows(d, K \ P, pos)
  PROVE  Follows(AdjustCount(d, s, P), K \cup P, pos)
<1> DEFINE e == AdjustCount(d, s, P)
<1>1. P \in SUBSET Peers /\ \A p \in P : pos[p].set = s
  BY DEF Holders
<1> SUFFICES ASSUME NEW t \in AllTx, e[t] # NoDispute, NEW p \in K \cup P
             PROVE  p \in (IF t \in pos[p].set THEN e[t].yes ELSE e[t].no)
  BY DEF Follows
<1>2. d[t] # NoDispute
  BY AdjustNone
<1>3. /\ t \in s => e[t].yes = d[t].yes \cup P /\ e[t].no = d[t].no \ P
      /\ t \notin s => e[t].yes = d[t].yes \ P /\ e[t].no = d[t].no \cup P
  BY <1>1, <1>2, AdjustVotes
<1> HIDE DEF e
<1>4. CASE p \in P
  BY <1>1, <1>3, <1>4
<1>5. CASE p \notin P
  <2>1. p \in (IF t \in pos[p].set THEN d[t].yes ELSE d[t].no)
    BY <1>2, <1>5 DEF Follows
  <2> QED BY <1>3, <1>5, <2>1
<1> QED BY <1>4, <1>5

\* createDisputes counts every peer whose set is at hand.
LEMMA CreateFollows ==
  ASSUME NEW d, NEW acq, NEW pos, NEW ours, NEW S, NEW K, VotesOK(d, pos),
         Follows(d, K, pos), K \subseteq Known(acq, pos)
  PROVE  Follows(CreateDisputes(d, acq, pos, ours, S), K, pos)
<1> DEFINE e == CreateDisputes(d, acq, pos, ours, S)
<1> SUFFICES ASSUME NEW t \in AllTx, e[t] # NoDispute, NEW p \in K
             PROVE  p \in (IF t \in pos[p].set THEN e[t].yes ELSE e[t].no)
  BY DEF Follows
<1>1. e[t] = d[t] \/ e[t] = AddDisputed(acq, pos, ours, t)
  BY DEF CreateDisputes, VotesOK
<1> HIDE DEF e
<1>2. CASE e[t] = d[t]
  BY <1>2 DEF Follows
<1>3. CASE e[t] = AddDisputed(acq, pos, ours, t)
  <2>1. e[t].yes = With(acq, pos, t) /\ e[t].no = Known(acq, pos) \ With(acq, pos, t)
    BY <1>3, AddDisputedOK
  <2>2. p \in Known(acq, pos) /\ (p \in With(acq, pos, t) <=> t \in pos[p].set)
    BY DEF With
  <2> QED BY <2>1, <2>2
<1> QED BY <1>1, <1>2, <1>3

\* A new dispute has our vote from our set.
LEMMA CreateVotes ==
  ASSUME NEW d, NEW acq, NEW pos, NEW ours, NEW S, VotesOK(d, pos), VotesAre(d, ours)
  PROVE  VotesAre(CreateDisputes(d, acq, pos, ours, S), ours)
<1> DEFINE e == CreateDisputes(d, acq, pos, ours, S)
<1> SUFFICES ASSUME NEW t \in AllTx, e[t] # NoDispute PROVE e[t].ourVote = (t \in ours)
  BY DEF VotesAre
<1>1. e[t] = d[t] \/ e[t] = AddDisputed(acq, pos, ours, t)
  BY DEF CreateDisputes, VotesOK
<1> HIDE DEF e
<1>2. AddDisputed(acq, pos, ours, t).ourVote = (t \in ours)
  BY AddDisputedOK
<1> QED BY <1>1, <1>2 DEF VotesAre

\* adjustCount leaves our votes alone.
LEMMA AdjustKeepsOurs ==
  ASSUME NEW d, NEW pos, NEW s, NEW P \in SUBSET Peers, VotesOK(d, pos), NEW ours, VotesAre(d, ours)
  PROVE  VotesAre(AdjustCount(d, s, P), ours)
<1> DEFINE e == AdjustCount(d, s, P)
<1> SUFFICES ASSUME NEW t \in AllTx, e[t] # NoDispute PROVE e[t].ourVote = (t \in ours)
  BY DEF VotesAre
<1>0. d[t] # NoDispute
  BY AdjustNone
<1>1. e[t].ourVote = d[t].ourVote
  BY <1>0, AdjustVotes
<1> QED BY <1>0, <1>1 DEF VotesAre

\* A set that is at hand makes its holders known.
LEMMA KnownGrows ==
  ASSUME NEW acq, acq = [s \in AllSets |-> acq[s]], NEW pos, SetsIn(pos), NEW s,
         NEW bcq, bcq = [acq EXCEPT ![s] = "have"]
  PROVE  /\ bcq = [r \in AllSets |-> bcq[r]]
         /\ Known(bcq, pos) \subseteq Known(acq, pos) \cup Holders(pos, s)
         /\ s \in AllSets => Holders(pos, s) \subseteq Known(bcq, pos)
<1>1. \A r \in AllSets : bcq[r] = IF r = s THEN "have" ELSE acq[r]
  BY Zenon
<1>2. bcq = [r \in AllSets |-> bcq[r]]
  BY Zenon
<1>3. \A p \in Peers : pos[p].set \in AllSets
  BY DEF SetsIn
<1> QED BY <1>1, <1>2, <1>3 DEF Known, Holders

\* mapComplete.
LEMMA MapCompleteFollows ==
  ASSUME NEW s, NEW pos, VotesOK(disputes, pos), MapComplete(s, pos),
         acquired = [r \in AllSets |-> acquired[r]], SetsIn(pos),
         Follows(disputes, Known(acquired, pos), pos)
  PROVE  /\ acquired' = [r \in AllSets |-> acquired'[r]]
         /\ Follows(disputes', Known(acquired', pos), pos)
         /\ (our # NoPosition /\ our.seq # Leave => VotesAre(disputes, our.set))
             => (our # NoPosition /\ our.seq # Leave => VotesAre(disputes', our.set))
         /\ our = NoPosition =>
               \A t \in AllTx : disputes[t] = NoDispute => disputes'[t] = NoDispute
<1> DEFINE d == IF CompareNow(s)
                  THEN CreateDisputes(disputes, acquired, pos, our.set, {s})
                  ELSE disputes
           K == Known(acquired, pos)
           H == Holders(pos, s)
<1>1. VotesOK(d, pos)
  BY CreateDisputesOK
<1>2. Follows(d, K, pos)
  BY CreateFollows
<1>3. /\ acquired' = [acquired EXCEPT ![s] = "have"]
      /\ disputes' = IF acquired[s] = "have" THEN disputes ELSE AdjustCount(d, s, H)
  BY DEF MapComplete
<1>4. /\ acquired' = [r \in AllSets |-> acquired'[r]]
      /\ Known(acquired', pos) \subseteq K \cup H
  BY Zenon, <1>3, KnownGrows
<1>5. H \in SUBSET Peers /\ H \subseteq Holders(pos, s)
  BY DEF Holders
<1>6. Follows(disputes', Known(acquired', pos), pos)
  <2>1. CASE acquired[s] = "have"
    <3>1. H \subseteq K
      BY <2>1 DEF Holders, Known
    <3> QED BY <1>3, <1>4, <2>1, <3>1 DEF Follows
  <2>2. CASE acquired[s] # "have"
    <3> HIDE DEF d, K, H
    <3>1. Follows(d, K \ H, pos)
      BY <1>2 DEF Follows
    <3>2. Follows(AdjustCount(d, s, H), K \cup H, pos)
      BY <1>1, <1>5, <3>1, AdjustFollows
    <3> QED BY <1>3, <1>4, <2>2, <3>2 DEF Follows
  <2> QED BY <2>1, <2>2
<1>7. ASSUME our # NoPosition, our.seq # Leave, VotesAre(disputes, our.set)
      PROVE  VotesAre(disputes', our.set)
  <2>1. VotesAre(d, our.set)
    BY <1>7, CreateVotes
  <2> HIDE DEF d, H
  <2> QED BY <1>1, <1>3, <1>5, <1>7, <2>1, AdjustKeepsOurs
<1>8. ASSUME our = NoPosition, NEW t \in AllTx, disputes[t] = NoDispute
      PROVE  disputes'[t] = NoDispute
  <2>1. d = disputes
    BY <1>8 DEF CompareNow
  <2> HIDE DEF d, H
  <2>2. AdjustCount(disputes, s, H)[t] = NoDispute
    BY <1>8, AdjustNone
  <2> QED BY <1>3, <1>8, <2>1, <2>2
<1> QED BY <1>4, <1>6, <1>7, <1>8

\* Without the votes of the peers of P, the others are still followed.
LEMMA UnVoteFollows ==
  ASSUME NEW d, NEW pos, NEW qos, NEW e, NEW K, NEW P \in SUBSET Peers, VotesOK(d, pos),
         Follows(d, K, pos), \A q \in K \ P : qos[q] = pos[q],
         \A t \in AllTx : d[t] = NoDispute => e[t] = NoDispute,
         \A t \in AllTx : d[t] # NoDispute =>
            e[t].yes = UnVotes(d[t], P).yes /\ e[t].no = UnVotes(d[t], P).no
  PROVE  Follows(e, K \ P, qos)
<1> SUFFICES ASSUME NEW t \in AllTx, e[t] # NoDispute, NEW q \in K \ P
             PROVE  q \in (IF t \in qos[q].set THEN e[t].yes ELSE e[t].no)
  BY DEF Follows
<1>1. d[t] # NoDispute /\ Counted(d[t], Peers)
  BY DEF VotesOK
<1>2. e[t].yes = d[t].yes \ P /\ e[t].no = d[t].no \ P
  <2>1. UnVotes(d[t], P).yes = d[t].yes \ P /\ UnVotes(d[t], P).no = d[t].no \ P
    BY <1>1, UnVotesCounted, PeersAssumption
  <2> QED BY <1>1, <2>1
<1>3. q \in (IF t \in pos[q].set THEN d[t].yes ELSE d[t].no)
  BY <1>1 DEF Follows
<1> QED BY <1>2, <1>3

\* A proposal for our ledger, received or replayed.
LEMMA PositionKeepsSets ==
  ASSUME OurInv, PeerInv, SetInv, ~crashed, NEW p \in Peers, NEW n \in Proposals,
         PeerPosition(p, n), UNCHANGED <<state, our>>
  PROVE  SetInv'
<1>1. n.set \in AllSets
  BY SetsAssumption DEF Proposals
<1>2. VotesOK(disputes, positions) /\ Follows(disputes, Known(acquired, positions), positions)
  BY DEF PeerInv, SetInv
<1>3. state = "PRE_CLOSE" => our = NoPosition
  BY DEF OurInv
<1>4. CASE UNCHANGED <<peerVars, setVars, crashed>>
  BY <1>4 DEF SetInv, peerVars, setVars, SetsIn
<1>5. CASE PeerLeaves(p)
  <2>1. /\ positions' = [positions EXCEPT ![p] = NoPosition] /\ UNCHANGED acquired
        /\ disputes' = [t \in AllTx |-> IF disputes[t] = NoDispute THEN NoDispute
                                        ELSE UnVotes(disputes[t], {p})]
    BY <1>2, <1>5 DEF PeerLeaves, VotesOK
  <2>2. /\ positions'[p] = NoPosition
        /\ \A q \in Peers \ {p} : positions'[q] = positions[q]
    BY <2>1 DEF PeerInv
  <2>3. SetsIn(positions)'
    BY <2>2 DEF SetInv, SetsIn, NoPosition, AllSets
  <2>4. Known(acquired, positions)' \subseteq Known(acquired, positions) \ {p}
    BY <2>1, <2>2 DEF Known
  <2>5. Follows(disputes', Known(acquired, positions) \ {p}, positions')
    <3> DEFINE K == Known(acquired, positions)
               e == disputes'
               qos == positions'
    <3>1. /\ \A q \in K \ {p} : qos[q] = positions[q]
          /\ {p} \in SUBSET Peers
      BY <2>2 DEF Known
    <3>2. /\ \A t \in AllTx : disputes[t] = NoDispute => e[t] = NoDispute
          /\ \A t \in AllTx : disputes[t] # NoDispute => e[t] = UnVotes(disputes[t], {p})
      BY <2>1
    <3> HIDE DEF K, e, qos
    <3>3. \A t \in AllTx : disputes[t] # NoDispute =>
             e[t].yes = UnVotes(disputes[t], {p}).yes /\ e[t].no = UnVotes(disputes[t], {p}).no
      BY Zenon, <3>2
    <3>4. Follows(disputes, K, positions)
      BY <1>2 DEF K
    <3>5. Follows(e, K \ {p}, qos)
      BY Zenon, <1>2, <3>1, <3>2, <3>3, <3>4, UnVoteFollows
    <3> QED BY <3>5 DEF K, e, qos
  <2>6. Follows(disputes', Known(acquired', positions'), positions')
    BY <2>4, <2>5 DEF Follows
  <2>7. ASSUME NEW t \in AllTx, disputes'[t] # NoDispute
        PROVE  disputes[t] # NoDispute /\ disputes'[t].ourVote = disputes[t].ourVote
    <3>1. Counted(disputes[t], Peers) /\ disputes[t] # NoDispute
      BY <1>2, <2>1, <2>7 DEF VotesOK
    <3>2. disputes'[t] = UnVotes(disputes[t], {p})
      BY <2>1, <3>1
    <3>3. UnVotes(disputes[t], {p}).ourVote = disputes[t].ourVote
      <4>1. {p} \in SUBSET Peers
        OBVIOUS
      <4> QED BY <3>1, <4>1, UnVotesCounted, PeersAssumption
    <3> QED BY <3>1, <3>2, <3>3
  <2> QED BY Zenon, <2>1, <2>3, <2>6, <2>7 DEF SetInv, VotesAre
<1>6. CASE /\ positions' = [positions EXCEPT ![p] = n]
           /\ TakeSet(p, n.set, [positions EXCEPT ![p] = n])
           /\ ~Obsolete(p, n)
           /\ n # NoPosition
  <2> DEFINE pos == [positions EXCEPT ![p] = n]
             K == Known(acquired, positions)
  <2>1. /\ pos = [q \in Peers |-> pos[q]] /\ pos[p] = n
        /\ \A q \in Peers \ {p} : pos[q] = positions[q]
    BY DEF PeerInv
  <2>2. positions' = pos /\ TakeSet(p, n.set, pos)
    BY <1>6
  <2> HIDE DEF pos
  <2>3. SetsIn(pos)
    BY <1>1, <2>1 DEF SetInv, SetsIn
  <2>4. PresentIn(positions) \subseteq PresentIn(pos) /\ p \in Holders(pos, n.set)
    BY <1>6, <2>1 DEF PresentIn, Holders
  <2>5. VotesOK(disputes, pos)
    BY <1>2, <2>4, VotesOKMonotone
  <2>6. Follows(disputes, K \ {p}, pos)
    <3>1. \A q \in K \ {p} : pos[q] = positions[q]
      BY <2>1 DEF Known
    <3> QED BY <1>2, <3>1 DEF Follows
  <2>7. Known(acquired, pos) \subseteq K \cup {p}
    BY <2>1 DEF Known
  <2>8. acquired[n.set] # "have" => Follows(disputes, Known(acquired, pos), pos)
    <3>1. acquired[n.set] # "have" => p \notin Known(acquired, pos)
      BY <2>1 DEF Known
    <3> HIDE DEF K
    <3> QED BY <2>6, <2>7, <3>1 DEF Follows
  <2>9. CASE acquired[n.set] = "have" /\ disputes' = AdjustCount(disputes, n.set, {p})
             /\ UNCHANGED <<acquired, crashed>>
    <3>1. Follows(AdjustCount(disputes, n.set, {p}), K \cup {p}, pos)
      <4> HIDE DEF K
      <4> QED BY <2>4, <2>5, <2>6, AdjustFollows
    <3>2. Follows(disputes', Known(acquired', pos), pos)
      <4> HIDE DEF K
      <4> QED BY <2>7, <2>9, <3>1 DEF Follows
    <3>3. \A t \in AllTx : disputes[t] = NoDispute => disputes'[t] = NoDispute
      BY <2>5, <2>9, AdjustNone
    <3>4. our # NoPosition /\ our.seq # Leave => VotesAre(disputes', our.set)
      BY <2>5, <2>9, AdjustKeepsOurs DEF SetInv
    <3> QED BY <2>2, <2>3, <2>9, <3>2, <3>3, <3>4 DEF SetInv
  <2>10. CASE acquired[n.set] # "have" /\ UNCHANGED <<disputes, acquired, crashed>>
    BY <2>2, <2>3, <2>8, <2>10 DEF SetInv
  <2>11. CASE acquired[n.set] # "have" /\ MapComplete(n.set, pos)
    <3> HIDE DEF K
    <3>1. acquired = [r \in AllSets |-> acquired[r]]
      BY DEF SetInv
    <3>2. /\ acquired' = [r \in AllSets |-> acquired'[r]]
          /\ Follows(disputes', Known(acquired', pos), pos)
          /\ our # NoPosition /\ our.seq # Leave => VotesAre(disputes', our.set)
          /\ our = NoPosition =>
               \A t \in AllTx : disputes[t] = NoDispute => disputes'[t] = NoDispute
      BY <2>3, <2>5, <2>8, <2>11, <3>1, MapCompleteFollows DEF SetInv
    <3> QED BY <1>3, <2>2, <2>3, <3>2 DEF SetInv
  <2> QED BY <2>2, <2>9, <2>10, <2>11 DEF TakeSet, setVars
<1>7. n # NoPosition
  BY LedgersAssumption DEF Proposals, NoPosition
<1> QED BY <1>4, <1>5, <1>6, <1>7 DEF PeerPosition

\* Closing the ledger takes a position, and with it the first disputes.
LEMMA CloseKeepsSets ==
  ASSUME PeerInv, SetInv, StatePreClose
  PROVE  SetInv'
<1>1. state = "PRE_CLOSE" /\ UNCHANGED positions
  BY DEF StatePreClose, peerVars
<1>2. CASE UNCHANGED <<state, our, setVars, crashed>>
  BY <1>1, <1>2 DEF SetInv, setVars, SetsIn
<1>3. ASSUME NEW txs, NEW ct, TakeInitialPosition(txs, ct), state' = "INITIAL_POSITION"
      PROVE  SetInv'
  <2> DEFINE ours == InitialSet(txs)
             acq == [acquired EXCEPT ![ours] = "have"]
             K == Known(acq, positions)
  <2>1. /\ our' = [prev |-> openParent, seq |-> 0, set |-> ours, ct |-> ct]
        /\ acquired' = acq
        /\ \E S : disputes' = CreateDisputes(disputes, acq, positions, ours, S)
    BY <1>3 DEF TakeInitialPosition
  <2>2. acq = [r \in AllSets |-> acq[r]]
    <3> HIDE DEF ours
    <3> QED BY DEF SetInv
  <2>3. \A t \in AllTx : disputes[t] = NoDispute
    BY <1>1 DEF SetInv
  <2>4. VotesOK(disputes, positions) /\ K \subseteq Known(acq, positions)
    BY DEF PeerInv
  <2> HIDE DEF ours, acq, K
  <2>5. Follows(disputes, K, positions) /\ VotesAre(disputes, ours)
    BY <2>3 DEF Follows, VotesAre
  <2>6. Follows(disputes', K, positions) /\ VotesAre(disputes', ours)
    BY <2>1, <2>4, <2>5, CreateFollows, CreateVotes
  <2>7. our'.set = ours
    BY <2>1
  <2> QED BY <1>1, <1>3, <2>1, <2>2, <2>6, <2>7 DEF SetInv, SetsIn, K
<1> QED BY <1>2, <1>3 DEF StatePreClose

\* updateOurPositions and haveConsensus: our new set is what we vote for now.
LEMMA EstablishKeepsSets ==
  ASSUME OurInv, PeerInv, SetInv, ~crashed, StateEstablish
  PROVE  SetInv'
<1>1. PICK stale, ourStale, x, u :
        /\ stale \in SUBSET Present
        /\ u = UpdateOurPositions(Fresh(stale), Revote(stale), x, ourStale)
        /\ CheckConsensus(u)
  BY EstablishStep
<1> DEFINE pos == Fresh(stale)
           voted == Revote(stale)
           changed == {t \in Disputed(disputes) : voted[t].ourVote # disputes[t].ourVote}
           set == RevisedSet(changed, voted)
           moves == (changed # {} \/ x.closeTime # Round(our.ct) \/ ourStale) /\ our.seq # Leave
           K == Known(acquired, positions)
<1>2. /\ u.pos = pos
      /\ u.our = IF moves THEN ChangePosition(set, x.closeTime) ELSE our
      /\ u.acq = IF moves THEN [acquired EXCEPT ![set] = "have"] ELSE acquired
      /\ u.disputes = IF moves /\ acquired[set] # "have"
                        THEN AdjustCount(voted, set, Holders(pos, set)) ELSE voted
  BY ZenonT(60), <1>1 DEF UpdateOurPositions
<1>3. /\ positions' = u.pos /\ our' = u.our /\ acquired' = u.acq
      /\ \E fresh : disputes' = CreateDisputes(u.disputes, u.acq, u.pos, u.our.set, fresh)
      /\ state' # "PRE_CLOSE"
  BY ZenonT(60), <1>1 DEF CheckConsensus, StateEstablish
<1>4. /\ DOMAIN our = {"prev", "seq", "set", "ct"} /\ our # NoPosition
  <2>1. state = "ESTABLISH"
    BY Zenon DEF StateEstablish
  <2> QED BY <2>1, LedgersAssumption DEF OurInv, NoPosition
<1>5. /\ pos = [p \in Peers |-> pos[p]]
      /\ \A p \in Peers : pos[p] = IF p \in stale THEN NoPosition ELSE positions[p]
  BY DEF Fresh
<1>6. stale \in SUBSET Peers
  BY <1>1 DEF Present
<1>7. /\ voted = [t \in AllTx |-> voted[t]]
      /\ \A t \in AllTx : disputes[t] = NoDispute => voted[t] = NoDispute
      /\ \A t \in AllTx : disputes[t] # NoDispute =>
           voted[t] = UpdateVote(UnVotes(disputes[t], stale), ClosePercent, proposing)
  BY DEF Revote, PeerInv, VotesOK
<1>8. VotesOK(disputes, positions) /\ Follows(disputes, K, positions) /\ SetsIn(positions)
      /\ acquired = [r \in AllSets |-> acquired[r]]
  BY DEF PeerInv, SetInv
<1>9. our.seq # Leave => VotesAre(disputes, our.set)
  BY <1>4 DEF SetInv
<1>10. SetsIn(pos)
  BY <1>5, <1>8 DEF SetsIn, NoPosition, AllSets
<1>11. Known(acquired, pos) \subseteq K \ stale
  BY <1>5 DEF Known
<1>12. \A q \in K \ stale : pos[q] = positions[q]
  BY <1>5 DEF Known
<1> HIDE DEF pos, voted, K
<1>13. ASSUME NEW t \in AllTx, disputes[t] # NoDispute
       PROVE  /\ Counted(voted[t], Peers)
              /\ voted[t].yes = UnVotes(disputes[t], stale).yes
              /\ voted[t].no = UnVotes(disputes[t], stale).no
  BY <1>6, <1>13, RevoteCounted DEF voted
<1>14. VotesOK(voted, pos)
  <2>1. PresentIn(positions) \ stale \subseteq PresentIn(pos)
    BY <1>5 DEF PresentIn
  <2> QED BY ZenonT(60), <1>6, <1>7, <1>8, <1>13, <2>1, UnVotesOK
<1>15. Follows(voted, K \ stale, pos)
  BY Zenon, <1>6, <1>7, <1>8, <1>12, <1>13, UnVoteFollows
<1>16. /\ VotesOK(u.disputes, pos) /\ u.acq = [r \in AllSets |-> u.acq[r]]
       /\ Follows(u.disputes, Known(u.acq, pos), pos)
  <2> DEFINE H == Holders(pos, set)
  <2>1. Follows(voted, Known(acquired, pos), pos)
    BY <1>11, <1>15 DEF Follows
  <2>2. H \subseteq PresentIn(pos) /\ H \in SUBSET Peers
    BY DEF Holders, PresentIn
  <2> HIDE DEF set, moves
  <2>3. CASE ~moves
    BY <1>2, <1>8, <1>14, <2>1, <2>3
  <2>4. CASE moves
    <3> DEFINE bcq == [acquired EXCEPT ![set] = "have"]
    <3>1. u.acq = bcq
      BY <1>2, <2>4
    <3>2. /\ bcq = [r \in AllSets |-> bcq[r]]
          /\ Known(bcq, pos) \subseteq Known(acquired, pos) \cup H
      BY <1>8, <1>10, KnownGrows
    <3> HIDE DEF bcq
    <3>3. CASE acquired[set] = "have"
      <4>1. H \subseteq Known(acquired, pos)
        BY <3>3 DEF Holders, Known
      <4>2. u.disputes = voted
        BY <1>2, <3>3
      <4> HIDE DEF H
      <4>3. Follows(voted, Known(bcq, pos), pos)
        BY <2>1, <3>2, <4>1 DEF Follows
      <4> QED BY <1>14, <3>1, <3>2, <4>2, <4>3
    <3>4. CASE acquired[set] # "have"
      <4>1. u.disputes = AdjustCount(voted, set, H)
        BY <1>2, <2>4, <3>4
      <4>2. Follows(voted, Known(acquired, pos) \ H, pos)
        BY <2>1 DEF Follows
      <4>3. Follows(u.disputes, Known(acquired, pos) \cup H, pos)
        BY <1>14, <4>1, <4>2, AdjustFollows
      <4>4. VotesOK(u.disputes, pos)
        BY <1>14, <2>2, <4>1, AdjustCountOK
      <4> HIDE DEF H
      <4>5. Follows(u.disputes, Known(bcq, pos), pos)
        BY <3>2, <4>3 DEF Follows
      <4> QED BY <3>1, <3>2, <4>4, <4>5
    <3> QED BY <3>3, <3>4
  <2> QED BY <2>3, <2>4
<1>17. u.our.seq # Leave => VotesAre(u.disputes, u.our.set)
  <2> SUFFICES ASSUME u.our.seq # Leave PROVE VotesAre(u.disputes, u.our.set)
    OBVIOUS
  <2>1. our.seq # Leave /\ VotesAre(disputes, our.set)
    <3>1. moves => our.seq # Leave
      OBVIOUS
    <3> HIDE DEF moves, set
    <3> QED BY <1>2, <1>9, <3>1
  <2>2. VotesAre(voted, u.our.set)
    <3> SUFFICES ASSUME NEW t \in AllTx, voted[t] # NoDispute
                 PROVE  voted[t].ourVote = (t \in u.our.set)
      BY DEF VotesAre
    <3>1. disputes[t] # NoDispute /\ t \in Disputed(disputes)
      BY <1>7, <1>8 DEF Disputed, VotesOK
    <3>2. /\ voted[t].ourVote \in BOOLEAN /\ disputes[t].ourVote \in BOOLEAN
          /\ disputes[t].ourVote = (t \in our.set)
      BY <1>8, <1>13, <2>1, <3>1 DEF Counted, Dispute, VotesAre, VotesOK
    <3>3. CASE moves
      <4>1. u.our.set = set
        <5> HIDE DEF moves, set
        <5> QED BY <1>2, <1>4, <3>3 DEF ChangePosition
      <4>2. t \in set <=> (IF t \in changed THEN voted[t].ourVote ELSE t \in our.set)
        <5> HIDE DEF changed
        <5> QED BY DEF RevisedSet
      <4>3. t \notin changed => voted[t].ourVote = disputes[t].ourVote
        BY <3>1
      <4> HIDE DEF set, changed, moves, voted
      <4>4. CASE t \in changed
        <5>1. t \in set <=> voted[t].ourVote
          BY Zenon, <4>2, <4>4
        <5> QED BY <3>2, <4>1, <5>1
      <4>5. CASE t \notin changed
        <5>1. t \in set <=> t \in our.set
          BY Zenon, <4>2, <4>5
        <5> QED BY <3>2, <4>1, <4>3, <4>5, <5>1
      <4> QED BY <4>4, <4>5
    <3>4. CASE ~moves
      <4>1. u.our = our /\ changed = {}
        BY Zenon, <1>2, <2>1, <3>4
      <4>2. voted[t].ourVote = disputes[t].ourVote
        BY Zenon, <3>1, <4>1
      <4> QED BY Zenon, <3>2, <4>1, <4>2
    <3> QED BY <3>3, <3>4
  <2>3. Holders(pos, set) \in SUBSET Peers
    BY DEF Holders
  <2> HIDE DEF set, moves
  <2>4. VotesAre(AdjustCount(voted, set, Holders(pos, set)), u.our.set)
    BY <1>14, <2>2, <2>3, AdjustKeepsOurs
  <2> QED BY <1>2, <2>2, <2>4
<1>18. PICK fresh : disputes' = CreateDisputes(u.disputes, u.acq, pos, u.our.set, fresh)
  BY Zenon, <1>2, <1>3
<1>19. Follows(disputes', Known(u.acq, pos), pos)
  <2> DEFINE L == Known(u.acq, pos)
  <2>1. L \subseteq Known(u.acq, pos) /\ Follows(u.disputes, L, pos)
    BY <1>16
  <2> HIDE DEF L
  <2>2. Follows(disputes', L, pos)
    BY <1>16, <1>18, <2>1, CreateFollows
  <2> QED BY <2>2 DEF L
<1>20. our'.seq # Leave => VotesAre(disputes', our'.set)
  <2>1. our' = u.our
    BY <1>3
  <2> QED BY <1>16, <1>17, <1>18, <2>1, CreateVotes
<1> HIDE DEF set, moves
<1> QED BY <1>2, <1>3, <1>10, <1>16, <1>19, <1>20 DEF SetInv

\* Steps that leave the sets alone.
LEMMA SetFrame ==
  ASSUME SetInv, UNCHANGED <<acquired, positions, disputes, our, crashed>>,
         state' = "PRE_CLOSE" => state = "PRE_CLOSE"
  PROVE  SetInv'
  BY DEF SetInv, SetsIn

\* The constructor.
LEMMA SetInit == Init => SetInv /\ ReplayInv
<1> SUFFICES ASSUME Init PROVE SetInv /\ ReplayInv
  OBVIOUS
<1>1. /\ acquired = [s \in AllSets |-> acquired[s]]
      /\ \A t \in AllTx : disputes[t] = NoDispute
      /\ positions = [p \in Peers |-> NoPosition]
  BY DEF Init, AllTx
<1>2. SetsIn(positions)
  BY <1>1 DEF SetsIn, NoPosition, AllSets
<1>3. stored = [p \in Peers |-> <<>>] /\ replay = [p \in Peers |-> <<>>]
  BY DEF Init
<1> QED BY <1>1, <1>2, <1>3 DEF SetInv, ReplayInv, Follows, VotesAre

\* What is replayed was received.
LEMMA ReplayNext == ReplayInv /\ [Next]_vars => ReplayInv'
<1> SUFFICES ASSUME ReplayInv, [Next]_vars PROVE ReplayInv'
  OBVIOUS
<1>1. CASE TimerCheckLCL
  <2>1. stored' = stored /\ replay' \in {replay, stored}
    BY <1>1 DEF TimerCheckLCL, ChangeLCL
  <2> QED BY <2>1 DEF ReplayInv
<1>2. ASSUME NEW p \in Peers, PlaybackStep(p) PROVE ReplayInv'
  <2>1. stored' = stored /\ replay' = [replay EXCEPT ![p] = Tail(replay[p])] /\ replay[p] # <<>>
    BY <1>2 DEF PlaybackStep
  <2>2. Tail(replay[p]) \in Seq(Proposals)
    BY <2>1 DEF ReplayInv
  <2> QED BY <2>1, <2>2 DEF ReplayInv
<1>3. ASSUME NEW p \in Peers, NEW n \in Proposals, ReceiveProposal(p, n) PROVE ReplayInv'
  <2>1. stored' = [stored EXCEPT ![p] = Append(stored[p], n)] /\ replay' = replay
    BY <1>3 DEF ReceiveProposal
  <2>2. Append(stored[p], n) \in Seq(Proposals)
    BY DEF ReplayInv
  <2> QED BY <2>1, <2>2 DEF ReplayInv
<1>4. ASSUME NEW ok, Accept(ok) PROVE ReplayInv'
  <2>1. stored' = [p \in Peers |-> <<>>] /\ replay' = replay
    BY <1>4 DEF Accept
  <2> QED BY <2>1 DEF ReplayInv
<1>5. CASE UNCHANGED <<stored, replay>>
  BY <1>5 DEF ReplayInv
<1>6. CASE PlaybackEnds \/ SwitchLedger \/ StatePreClose \/ StateInitialPosition
           \/ StateEstablish \/ StateBuiltLedger
  BY Zenon, <1>5, <1>6 DEF PlaybackEnds, SwitchLedger, StatePreClose, StateInitialPosition,
     StateEstablish, StateBuiltLedger
<1>7. CASE \/ \E s \in Sets, r \in {"ok", "failed"} : AcquireDone(s, r)
           \/ \E s \in Sets : CompleteAcquire(s)
  BY <1>5, <1>7 DEF AcquireDone, CompleteAcquire
<1>8. CASE \/ \E t \in Tx : OpenLedgerTx(t)
           \/ LedgerArrives
           \/ \E v \in Validators, l \in Ledgers : RecvValidation(v, l)
           \/ \E i \in Instants : Tick(i)
  BY Zenon, <1>5, <1>8 DEF OpenLedgerTx, LedgerArrives, RecvValidation, Tick, roundVars
<1>9. CASE UNCHANGED vars
  BY <1>5, <1>9 DEF vars
<1> QED BY <1>1, <1>2, <1>3, <1>4, <1>6, <1>7, <1>8, <1>9 DEF Next, Timer

\* Every step keeps the votes with the sets.
LEMMA SetNext == OurInv /\ PeerInv /\ ReplayInv /\ SetInv /\ [Next]_vars => SetInv'
<1> SUFFICES ASSUME OurInv, PeerInv, ReplayInv, SetInv, [Next]_vars PROVE SetInv'
  OBVIOUS
<1>1. CASE TimerCheckLCL
  <2>1. state' = state /\ UNCHANGED crashed
    BY <1>1 DEF TimerCheckLCL
  <2>2. ASSUME NEW l, ChangeLCL(l) PROVE SetInv'
    <3>1. /\ positions' = [p \in Peers |-> NoPosition] /\ UNCHANGED acquired
          /\ disputes' = [t \in AllTx |-> NoDispute]
      BY <2>2 DEF ChangeLCL, ClearRound, PeerInv, VotesOK
    <3>2. SetsIn(positions)'
      BY <3>1 DEF SetsIn, NoPosition, AllSets
    <3> QED BY <3>1, <3>2 DEF SetInv, Follows, VotesAre
  <2>3. CASE UNCHANGED <<peerVars, setVars, ourVars>>
    BY <2>1, <2>3, SetFrame DEF peerVars, setVars, ourVars
  <2> QED BY <1>1, <2>2, <2>3 DEF TimerCheckLCL
<1>2. ASSUME NEW p \in Peers, PlaybackStep(p) PROVE SetInv'
  <2>1. /\ UNCHANGED <<state, our>> /\ ~crashed /\ replay[p] # <<>>
        /\ \/ PeerPosition(p, Head(replay[p]))
           \/ UNCHANGED <<peerVars, setVars, crashed>>
    BY <1>2 DEF PlaybackStep, ourVars, Alive
  <2>2. Head(replay[p]) \in Proposals
    BY <2>1 DEF ReplayInv
  <2> QED BY <2>1, <2>2, PositionKeepsSets, SetFrame DEF peerVars, setVars
<1>3. ASSUME NEW p \in Peers, NEW n \in Proposals, ReceiveProposal(p, n) PROVE SetInv'
  <2>1. /\ UNCHANGED <<state, our>> /\ ~crashed
        /\ \/ PeerPosition(p, n)
           \/ UNCHANGED <<peerVars, setVars, crashed>>
    BY <1>3 DEF ReceiveProposal, ourVars, Alive
  <2> QED BY <2>1, PositionKeepsSets, SetFrame DEF peerVars, setVars
<1>4. CASE StatePreClose
  BY <1>4, CloseKeepsSets
<1>5. CASE StateEstablish
  <2>1. ~crashed
    BY <1>5 DEF StateEstablish, Alive
  <2> QED BY <1>5, <2>1, EstablishKeepsSets
<1>6. ASSUME NEW s \in Sets, CompleteAcquire(s) PROVE SetInv'
  <2>1. ~crashed /\ UNCHANGED <<state, positions, our>>
    BY <1>6 DEF CompleteAcquire, Alive, peerVars, ourVars
  <2>2. /\ acquired = [r \in AllSets |-> acquired[r]] /\ SetsIn(positions)
        /\ VotesOK(disputes, positions)
        /\ Follows(disputes, Known(acquired, positions), positions)
        /\ state = "PRE_CLOSE" => our = NoPosition
    BY <2>1 DEF OurInv, PeerInv, SetInv
  <2>3. CASE MapComplete(s, positions)
    <3>1. /\ acquired' = [r \in AllSets |-> acquired'[r]]
          /\ Follows(disputes', Known(acquired', positions), positions)
          /\ our # NoPosition /\ our.seq # Leave => VotesAre(disputes', our.set)
          /\ our = NoPosition =>
               \A t \in AllTx : disputes[t] = NoDispute => disputes'[t] = NoDispute
      BY <2>2, <2>3, MapCompleteFollows DEF SetInv
    <3> QED BY <2>1, <2>2, <3>1 DEF SetInv
  <2>4. CASE AcquireFailed(s)
    <3>1. acquired' = [acquired EXCEPT ![s] = "failed"] /\ UNCHANGED <<disputes, crashed>>
      BY <2>4 DEF AcquireFailed
    <3>2. acquired' = [r \in AllSets |-> acquired'[r]]
      BY <2>2, <3>1
    <3>3. \A r \in AllSets : acquired'[r] = "have" => acquired[r] = "have"
      BY <2>2, <3>1
    <3>4. Known(acquired', positions) \subseteq Known(acquired, positions)
      BY <2>2, <3>3 DEF Known, SetsIn
    <3>5. Follows(disputes, Known(acquired', positions), positions)
      BY <2>2, <3>4 DEF Follows
    <3> QED BY <2>1, <2>2, <3>1, <3>2, <3>5 DEF SetInv
  <2> QED BY <1>6, <2>3, <2>4 DEF CompleteAcquire
<1>7. CASE PlaybackEnds \/ SwitchLedger \/ StateInitialPosition \/ StateBuiltLedger
  <2>1. /\ UNCHANGED <<acquired, positions, disputes, our, crashed>>
        /\ state' = "PRE_CLOSE" => state = "PRE_CLOSE"
    BY Zenon, <1>7 
     DEF PlaybackEnds, SwitchLedger, StateInitialPosition, StateBuiltLedger,
       peerVars, setVars, ourVars
  <2> QED BY <2>1, SetFrame
<1>8. CASE \/ \E s \in Sets, r \in {"ok", "failed"} : AcquireDone(s, r)
           \/ \E ok \in BOOLEAN : Accept(ok)
  <2>1. /\ UNCHANGED <<acquired, positions, disputes, our, crashed>>
        /\ state' = "PRE_CLOSE" => state = "PRE_CLOSE"
    BY <1>8 DEF AcquireDone, Accept, peerVars, setVars, ourVars
  <2> QED BY <2>1, SetFrame
<1>9. CASE \/ \E t \in Tx : OpenLedgerTx(t)
           \/ LedgerArrives
           \/ \E v \in Validators, l \in Ledgers : RecvValidation(v, l)
           \/ \E i \in Instants : Tick(i)
  <2>1. UNCHANGED <<acquired, positions, disputes, our, crashed, state>>
    BY Zenon, <1>9 DEF OpenLedgerTx, LedgerArrives, RecvValidation, Tick, roundVars,
       peerVars, setVars, ourVars
  <2> QED BY <2>1, SetFrame
<1>10. CASE UNCHANGED vars
  BY <1>10, SetFrame DEF vars, peerVars, setVars, ourVars
<1> QED BY Zenon, <1>1, <1>2, <1>3, <1>4, <1>5, <1>6, <1>7, <1>8, <1>9, <1>10 DEF Next, Timer

\* In whatever order proposals, sets and disputes come, and across bow-outs, stale
\* proposals and changes of the ledger: a peer whose set is at hand votes on every
\* dispute as its set says.
THEOREM VotesAlwaysFollowSets == Spec => []VotesFollowSets
<1>1. SetInv /\ PeerInv => VotesFollowSets
  BY DEF SetInv, PeerInv, VotesOK, Follows, VotesFollowSets, Disputed
<1> QED BY <1>1, OurInit, OurNext, PeerInit, PeerNext, SetInit, ReplayNext, SetNext, PTL DEF Spec

\* Whatever the avalanche does to our votes, our position is the set we vote for.
THEOREM OurVoteIsAlwaysPosition == Spec => []OurVoteIsPosition
<1>1. SetInv /\ PeerInv => OurVoteIsPosition
  BY DEF SetInv, PeerInv, VotesOK, VotesAre, OurVoteIsPosition, Disputed
<1> QED BY <1>1, OurInit, OurNext, PeerInit, PeerNext, SetInit, ReplayNext, SetNext, PTL DEF Spec

----------------------------------------------------------------------------
(* What an observer's following of the network rests on. *)

\* A timer entry in ESTABLISH of an observer that has not bowed out, while the peers,
\* those that are not found stale, agree on s.
ObserverUpdates(s) ==
  StateEstablish /\ PeersAgree(s) /\ our.seq # Leave /\ Present' # {}

\* On every disputed transaction an observer goes over to the side of peers that agree.
TakesSides ==
  [][\A s \in Sets : ObserverUpdates(s) =>
       \A t \in Disputed(disputes) : t \in our'.set <=> t \in s]_vars

\* ... and has their whole set after one timer entry, if it has compared it with its own.
JoinsPeers ==
  [][\A s \in Sets : ObserverUpdates(s) /\ s \in compares \cup {our.set} => our'.set = s]_vars

\* Wherever our set, one of known transactions, differs from one that it was compared
\* with, there is a dispute.
ComparedInv ==
  /\ our.set \subseteq AllTx
  /\ our = NoPosition => compares = {}
  /\ \A s \in compares : \A t \in AllTx : ~(t \in our.set <=> t \in s) => disputes[t] # NoDispute

\* adjustCount ends no dispute.
LEMMA AdjustStays ==
  ASSUME NEW d, NEW pos, NEW s, NEW P \in SUBSET Peers, VotesOK(d, pos),
         NEW t \in AllTx, d[t] # NoDispute
  PROVE  AdjustCount(d, s, P)[t] # NoDispute
<1> DEFINE e == AdjustCount(d, s, P)
<1>1. e[t] = IF t \in s THEN VoteYes(d[t], P) ELSE VoteNo(d[t], P)
  BY Zenon DEF AdjustCount, SetVotes, VotesOK
<1> HIDE DEF e
<1>2. Counted(d[t], Peers)
  BY Zenon DEF VotesOK
<1>3. Counted(VoteYes(d[t], P), Peers) /\ Counted(VoteNo(d[t], P), Peers)
  BY Zenon, <1>2, VoteYesCounted, VoteNoCounted, PeersAssumption
<1>4. Counted(e[t], Peers)
  BY Zenon, <1>1, <1>3
<1> QED BY Zenon, <1>4, CountedIsDispute DEF e

\* createDisputes leaves a dispute wherever there was one or the sets differ.
LEMMA CreateStays ==
  ASSUME NEW d, NEW acq, NEW pos, NEW ours, NEW S, VotesOK(d, pos), NEW t \in AllTx,
         d[t] # NoDispute \/ \E s \in S : ~(t \in ours <=> t \in s)
  PROVE  CreateDisputes(d, acq, pos, ours, S)[t] # NoDispute
<1> DEFINE e == CreateDisputes(d, acq, pos, ours, S)
<1>1. DOMAIN d = AllTx
  BY Zenon DEF VotesOK
<1>2. e[t] = IF d[t] = NoDispute /\ \E s \in S : (t \in ours) # (t \in s)
               THEN AddDisputed(acq, pos, ours, t) ELSE d[t]
  BY Zenon, <1>1 DEF CreateDisputes
<1>3. AddDisputed(acq, pos, ours, t) # NoDispute
  BY Zenon, AddDisputedOK, CountedIsDispute
<1>4. ASSUME NEW s \in S, ~(t \in ours <=> t \in s) PROVE (t \in ours) # (t \in s)
  BY Zenon, <1>4
<1> HIDE DEF e
<1>5. e[t] # NoDispute
  BY Zenon, <1>2, <1>3, <1>4
<1> QED BY Zenon, <1>5 DEF e

\* createDisputes does not touch the disputes there are.
LEMMA CreateKeeps ==
  ASSUME NEW d, NEW acq, NEW pos, NEW ours, NEW S, VotesOK(d, pos), NEW t \in AllTx,
         d[t] # NoDispute
  PROVE  CreateDisputes(d, acq, pos, ours, S)[t] = d[t]
  BY Zenon DEF CreateDisputes, VotesOK

\* A round starts without a position and without compared sets.
LEMMA ComparedInit == Init => ComparedInv
<1>1. Init => our = NoPosition /\ compares = {}
  BY Zenon DEF Init
<1>2. NoPosition.set = {}
  BY DEF NoPosition
<1> QED BY Zenon, <1>1, <1>2 DEF ComparedInv

\* Steps that compare nothing and end no dispute.
LEMMA ComparedFrame ==
  ASSUME ComparedInv, UNCHANGED <<our, compares>>,
         \A t \in AllTx : disputes[t] # NoDispute => disputes'[t] # NoDispute
  PROVE  ComparedInv'
  BY Zenon DEF ComparedInv

\* mapComplete compares the set with ours.
LEMMA MapCompleteCompares ==
  ASSUME ComparedInv, NEW s, NEW pos, VotesOK(disputes, pos), MapComplete(s, pos), UNCHANGED our
  PROVE  ComparedInv'
<1> DEFINE d == IF CompareNow(s)
                  THEN CreateDisputes(disputes, acquired, pos, our.set, {s})
                  ELSE disputes
           H == Holders(pos, s)
<1>1. /\ compares' = IF CompareNow(s) THEN compares \cup {s} ELSE compares
      /\ (disputes' = disputes /\ ~CompareNow(s)) \/ disputes' = AdjustCount(d, s, H)
  BY Zenon DEF MapComplete, CompareNow
<1>2. H \in SUBSET Peers
  BY Zenon DEF Holders
<1>3. VotesOK(d, pos)
  BY Zenon, CreateDisputesOK
<1>4. ASSUME NEW t \in AllTx, disputes[t] # NoDispute PROVE d[t] # NoDispute
  BY Zenon, <1>4, CreateStays
<1>5. ASSUME NEW t \in AllTx, CompareNow(s), ~(t \in our.set <=> t \in s)
      PROVE  d[t] # NoDispute
  BY Zenon, <1>5, CreateStays
<1>6. CompareNow(s) => our # NoPosition
  BY Zenon DEF CompareNow
<1> HIDE DEF d, H
<1>7. \A t \in AllTx : d[t] # NoDispute => AdjustCount(d, s, H)[t] # NoDispute
  BY Zenon, <1>2, <1>3, AdjustStays
<1>8. CASE CompareNow(s)
  <2>1. \A t \in AllTx : d[t] # NoDispute => disputes'[t] # NoDispute
    BY Zenon, <1>1, <1>7, <1>8
  <2>2. compares' = compares \cup {s}
    BY Zenon, <1>1, <1>8
  <2> QED BY Zenon, <1>4, <1>5, <1>6, <1>8, <2>1, <2>2 DEF ComparedInv
<1>9. CASE ~CompareNow(s)
  <2>1. compares' = compares
    BY Zenon, <1>1, <1>9
  <2>2. \A t \in AllTx : disputes[t] # NoDispute => disputes'[t] # NoDispute
    BY Zenon, <1>1, <1>4, <1>7
  <2> QED BY Zenon, <2>1, <2>2, ComparedFrame
<1> QED BY Zenon, <1>8, <1>9

\* A proposal for our ledger, received or replayed.
LEMMA PositionCompares ==
  ASSUME PeerInv, ComparedInv, NEW p \in Peers, NEW n \in Proposals,
         PeerPosition(p, n) \/ UNCHANGED <<peerVars, setVars, crashed>>, UNCHANGED our
  PROVE  ComparedInv'
<1>1. VotesOK(disputes, positions)
  BY Zenon DEF PeerInv
<1>2. CASE UNCHANGED <<peerVars, setVars, crashed>>
  BY Zenon, <1>2, ComparedFrame DEF setVars
<1>3. CASE PeerLeaves(p)
  <2>1. /\ UNCHANGED compares
        /\ disputes' = [t \in AllTx |-> IF disputes[t] = NoDispute THEN NoDispute
                                        ELSE UnVotes(disputes[t], {p})]
    BY Zenon, <1>1, <1>3 DEF PeerLeaves, VotesOK
  <2>2. ASSUME NEW t \in AllTx, disputes[t] # NoDispute PROVE disputes'[t] # NoDispute
    <3>1. Counted(disputes[t], Peers) /\ {p} \in SUBSET Peers
      BY Zenon, <1>1, <2>2 DEF VotesOK
    <3>2. Counted(UnVotes(disputes[t], {p}), Peers)
      BY Zenon, <3>1, UnVotesCounted, PeersAssumption
    <3>3. disputes'[t] = UnVotes(disputes[t], {p})
      BY Zenon, <2>1, <2>2
    <3> QED BY Zenon, <3>2, <3>3, CountedIsDispute
  <2> QED BY Zenon, <2>1, <2>2, ComparedFrame
<1>4. ASSUME TakeSet(p, n.set, [positions EXCEPT ![p] = n]) PROVE ComparedInv'
  <2> DEFINE pos == [positions EXCEPT ![p] = n]
  <2>1. VotesOK(disputes, pos)
    <3>1. n # NoPosition
      BY LedgersAssumption DEF Proposals, NoPosition
    <3>2. PresentIn(positions) \subseteq PresentIn(pos)
      BY Zenon, <3>1 DEF PresentIn, PeerInv
    <3> HIDE DEF pos
    <3> QED BY Zenon, <1>1, <3>2, VotesOKMonotone
  <2> HIDE DEF pos
  <2>2. CASE disputes' = AdjustCount(disputes, n.set, {p}) /\ UNCHANGED compares
    <3>1. \A t \in AllTx : disputes[t] # NoDispute => disputes'[t] # NoDispute
      BY Zenon, <2>1, <2>2, AdjustStays
    <3> QED BY Zenon, <2>2, <3>1, ComparedFrame
  <2>3. CASE UNCHANGED <<compares, disputes>>
    BY Zenon, <2>3, ComparedFrame
  <2>4. CASE MapComplete(n.set, pos)
    BY Zenon, <2>1, <2>4, MapCompleteCompares
  <2> QED BY Zenon, <1>4, <2>2, <2>3, <2>4 DEF TakeSet, setVars, pos
<1> QED BY Zenon, <1>2, <1>3, <1>4 DEF PeerPosition

\* Closing the ledger compares our first set with those at hand.
LEMMA CloseCompares ==
  ASSUME OurInv, PeerInv, ComparedInv, StatePreClose
  PROVE  ComparedInv'
<1>1. our = NoPosition /\ compares = {} /\ VotesOK(disputes, positions)
  BY Zenon DEF StatePreClose, OurInv, PeerInv, ComparedInv
<1>2. CASE UNCHANGED <<our, setVars>>
  BY Zenon, <1>2, ComparedFrame DEF setVars
<1>3. ASSUME NEW txs \in Sets, NEW ct, TakeInitialPosition(txs, ct) PROVE ComparedInv'
  <2> DEFINE ours == InitialSet(txs)
  <2>1. PICK acq, found :
          /\ our' = [prev |-> openParent, seq |-> 0, set |-> ours, ct |-> ct]
          /\ compares' = compares \cup found
          /\ disputes' = CreateDisputes(disputes, acq, positions, ours, found)
    BY Zenon, <1>3 DEF TakeInitialPosition
  <2>2. ours \subseteq AllTx
    BY Zenon, SetsAssumption DEF AllSets, AllTx, InitialSet
  <2> HIDE DEF ours
  <2>3. our'.set = ours /\ our'.prev = openParent /\ compares' = found
    BY Zenon, <1>1, <2>1
  <2>4. our' # NoPosition
    BY <2>3, LedgersAssumption DEF OurInv, NoPosition
  <2>5. ASSUME NEW s \in found, NEW t \in AllTx, ~(t \in ours <=> t \in s)
        PROVE  disputes'[t] # NoDispute
    BY Zenon, <1>1, <2>1, <2>5, CreateStays
  <2> QED BY Zenon, <2>2, <2>3, <2>4, <2>5 DEF ComparedInv
<1> QED BY Zenon, <1>2, <1>3 DEF StatePreClose

\* What updateOurPositions and haveConsensus do to a dispute there was, and where
\* they leave our set: a transaction that is not disputed stays where it was.
LEMMA EstablishVotes ==
  ASSUME OurInv, PeerInv, StateEstablish
  PROVE  \E stale, fresh :
           /\ stale \in SUBSET Present /\ positions' = Fresh(stale) /\ our' # NoPosition
           /\ our'.seq # Leave \/ our.seq = Leave
           /\ our'.set \subseteq our.set \cup AllTx
           /\ compares' = compares \cup fresh
           /\ \A t \in AllTx : disputes[t] # NoDispute =>
                disputes'[t] # NoDispute /\ disputes'[t].ourVote = Revote(stale)[t].ourVote
           /\ \A t \in AllTx : disputes[t] = NoDispute => (t \in our'.set <=> t \in our.set)
           /\ \A s \in fresh : \A t \in AllTx :
                ~(t \in our'.set <=> t \in s) => disputes'[t] # NoDispute
<1>1. PICK stale, ourStale, x, u :
        /\ stale \in SUBSET Present
        /\ u = UpdateOurPositions(Fresh(stale), Revote(stale), x, ourStale)
        /\ u.our.seq # Leave \/ our.seq = Leave
        /\ CheckConsensus(u)
  BY Zenon, EstablishStep
<1> DEFINE pos == Fresh(stale)
           voted == Revote(stale)
           changed == {t \in Disputed(disputes) : voted[t].ourVote # disputes[t].ourVote}
           set == RevisedSet(changed, voted)
           moves == (changed # {} \/ x.closeTime # Round(our.ct) \/ ourStale) /\ our.seq # Leave
<1>2. /\ u.pos = pos
      /\ u.our = IF moves THEN ChangePosition(set, x.closeTime) ELSE our
      /\ u.disputes = IF moves /\ acquired[set] # "have"
                        THEN AdjustCount(voted, set, Holders(pos, set)) ELSE voted
  BY ZenonT(60), <1>1 DEF UpdateOurPositions
<1>3. /\ positions' = u.pos /\ our' = u.our
      /\ \E fresh : /\ compares' = compares \cup fresh
                    /\ disputes' = CreateDisputes(u.disputes, u.acq, u.pos, u.our.set, fresh)
  BY ZenonT(60), <1>1 DEF CheckConsensus
<1>4. DOMAIN our = {"prev", "seq", "set", "ct"} /\ our.prev \in Ledgers
  <2>1. state = "ESTABLISH"
    BY Zenon DEF StateEstablish
  <2> QED BY Zenon, <2>1 DEF OurInv
<1>5. our'.set = (IF moves THEN set ELSE our.set) /\ our'.prev = our.prev
  <2> HIDE DEF moves, set
  <2> QED BY Zenon, <1>2, <1>3, <1>4 DEF ChangePosition
<1>6. our' # NoPosition
  BY <1>4, <1>5, LedgersAssumption DEF NoPosition
<1>7. stale \in SUBSET Peers /\ VotesOK(disputes, positions)
  BY Zenon, <1>1 DEF Present, PeerInv
<1>8. /\ voted = [t \in AllTx |-> voted[t]]
      /\ \A t \in AllTx : disputes[t] = NoDispute => voted[t] = NoDispute
  BY Zenon DEF Revote, PeerInv, VotesOK
<1>9. \A t \in AllTx : disputes[t] = NoDispute => (t \in our'.set <=> t \in our.set)
  <2> SUFFICES ASSUME NEW t \in AllTx, disputes[t] = NoDispute
               PROVE  t \in our'.set <=> t \in our.set
    OBVIOUS
  <2>1. t \notin changed
    BY Zenon DEF Disputed
  <2> HIDE DEF changed
  <2>2. t \in set <=> t \in our.set
    BY Zenon, <2>1 DEF RevisedSet
  <2> HIDE DEF set, moves
  <2> QED BY Zenon, <1>5, <2>2
<1>10. our'.set \subseteq our.set \cup AllTx
  <2>1. changed \subseteq AllTx
    BY Zenon, <1>7 DEF Disputed, VotesOK
  <2> HIDE DEF changed
  <2>2. set \subseteq our.set \cup AllTx
    BY Zenon, <2>1 DEF RevisedSet
  <2> HIDE DEF set, moves
  <2> QED BY Zenon, <1>5, <2>2
<1> HIDE DEF voted, pos, changed, set, moves
<1>11. ASSUME NEW t \in AllTx, disputes[t] # NoDispute
       PROVE  /\ Counted(voted[t], Peers)
              /\ voted[t].yes = UnVotes(disputes[t], stale).yes
              /\ voted[t].no = UnVotes(disputes[t], stale).no
  BY Zenon, <1>7, <1>11, RevoteCounted DEF voted
<1>12. VotesOK(voted, pos)
  <2>1. PresentIn(positions) \ stale \subseteq PresentIn(pos)
    BY Zenon DEF PresentIn, pos, Fresh
  <2> QED BY ZenonT(60), <1>7, <1>8, <1>11, <2>1, UnVotesOK
<1>13. /\ VotesOK(u.disputes, pos)
       /\ \A t \in AllTx : voted[t] # NoDispute =>
            u.disputes[t] # NoDispute /\ u.disputes[t].ourVote = voted[t].ourVote
  <2> DEFINE H == Holders(pos, set)
             e == AdjustCount(voted, set, H)
  <2>1. H \in SUBSET Peers /\ H \subseteq PresentIn(pos)
    BY Zenon DEF Holders, PresentIn
  <2> HIDE DEF H
  <2>2. VotesOK(e, pos)
    BY Zenon, <1>12, <2>1, AdjustCountOK
  <2>3. \A t \in AllTx : voted[t] # NoDispute =>
          e[t] # NoDispute /\ e[t].ourVote = voted[t].ourVote
    BY <1>12, <2>1, AdjustStays, AdjustVotes
  <2> HIDE DEF e
  <2>4. u.disputes = e \/ u.disputes = voted
    BY Zenon, <1>2 DEF e, H
  <2> QED BY Zenon, <1>12, <2>2, <2>3, <2>4
<1>14. PICK fresh : /\ compares' = compares \cup fresh
                    /\ disputes' = CreateDisputes(u.disputes, u.acq, pos, our'.set, fresh)
  BY Zenon, <1>2, <1>3
<1>15. ASSUME NEW t \in AllTx, disputes[t] # NoDispute
       PROVE  disputes'[t] # NoDispute /\ disputes'[t].ourVote = voted[t].ourVote
  <2>1. voted[t] # NoDispute
    BY Zenon, <1>11, <1>15, CountedIsDispute
  <2>2. u.disputes[t] # NoDispute /\ u.disputes[t].ourVote = voted[t].ourVote
    BY Zenon, <1>13, <2>1
  <2>3. disputes'[t] = u.disputes[t]
    BY <1>13, <1>14, <2>2, CreateKeeps
  <2> QED BY Zenon, <2>2, <2>3
<1>16. ASSUME NEW s \in fresh, NEW t \in AllTx, ~(t \in our'.set <=> t \in s)
       PROVE  disputes'[t] # NoDispute
  BY Zenon, <1>13, <1>14, <1>16, CreateStays
<1>17. positions' = Fresh(stale) /\ (our'.seq # Leave \/ our.seq = Leave)
  BY Zenon, <1>1, <1>2, <1>3 DEF pos
<1>18. stale \in SUBSET Present
  BY Zenon, <1>1
<1> QED BY ZenonT(60), <1>6, <1>9, <1>14, <1>15, <1>16, <1>17, <1>10, <1>18 DEF voted

\* Every step but a change of the ledger keeps compared sets in dispute.
LEMMA ComparedNext ==
  OurInv /\ PeerInv /\ ReplayInv /\ ComparedInv /\ [Next]_vars
    /\ [prevHash' = prevHash]_vars => ComparedInv'
<1> SUFFICES ASSUME OurInv, PeerInv, ReplayInv, ComparedInv, [Next]_vars,
                    prevHash' = prevHash
             PROVE  ComparedInv'
  BY Zenon DEF vars, lclVars
<1>1. CASE TimerCheckLCL
  <2>1. UNCHANGED <<setVars, ourVars>>
    BY Zenon, <1>1 DEF TimerCheckLCL, ChangeLCL
  <2> QED BY Zenon, <2>1, ComparedFrame DEF setVars, ourVars
<1>2. ASSUME NEW p \in Peers, PlaybackStep(p) PROVE ComparedInv'
  <2>1. /\ UNCHANGED our /\ replay[p] # <<>>
        /\ \/ PeerPosition(p, Head(replay[p]))
           \/ UNCHANGED <<peerVars, setVars, crashed>>
    BY Zenon, <1>2 DEF PlaybackStep, ourVars
  <2>2. Head(replay[p]) \in Proposals
    BY <2>1 DEF ReplayInv
  <2> QED BY Zenon, <2>1, <2>2, PositionCompares
<1>3. ASSUME NEW p \in Peers, NEW n \in Proposals, ReceiveProposal(p, n) PROVE ComparedInv'
  <2>1. /\ UNCHANGED our
        /\ \/ PeerPosition(p, n)
           \/ UNCHANGED <<peerVars, setVars, crashed>>
    BY Zenon, <1>3 DEF ReceiveProposal, ourVars
  <2> QED BY Zenon, <2>1, PositionCompares
<1>4. CASE StatePreClose
  BY Zenon, <1>4, CloseCompares
<1>5. CASE StateEstablish
  <2>1. PICK fresh :
           /\ our' # NoPosition /\ our'.set \subseteq our.set \cup AllTx
           /\ compares' = compares \cup fresh
           /\ \A t \in AllTx : disputes[t] # NoDispute => disputes'[t] # NoDispute
           /\ \A t \in AllTx : disputes[t] = NoDispute => (t \in our'.set <=> t \in our.set)
           /\ \A s \in fresh : \A t \in AllTx :
                ~(t \in our'.set <=> t \in s) => disputes'[t] # NoDispute
    BY Zenon, <1>5, EstablishVotes
  <2>2. our'.set \subseteq AllTx
    BY Zenon, <2>1 DEF ComparedInv
  <2> QED BY Zenon, <2>1, <2>2 DEF ComparedInv
<1>6. ASSUME NEW s \in Sets, CompleteAcquire(s) PROVE ComparedInv'
  <2>1. UNCHANGED our /\ VotesOK(disputes, positions)
    BY Zenon, <1>6 DEF CompleteAcquire, ourVars, PeerInv
  <2>2. CASE MapComplete(s, positions)
    BY Zenon, <2>1, <2>2, MapCompleteCompares
  <2>3. CASE AcquireFailed(s)
    BY Zenon, <2>1, <2>3, ComparedFrame DEF AcquireFailed
  <2> QED BY Zenon, <1>6, <2>2, <2>3 DEF CompleteAcquire
<1>7. CASE UNCHANGED <<setVars, our>>
  BY Zenon, <1>7, ComparedFrame DEF setVars
<1>8. CASE \/ PlaybackEnds \/ SwitchLedger \/ StateInitialPosition \/ StateBuiltLedger
           \/ \E s \in Sets, r \in {"ok", "failed"} : AcquireDone(s, r)
           \/ \E ok \in BOOLEAN : Accept(ok)
  BY Zenon, <1>7, <1>8 DEF PlaybackEnds, SwitchLedger, StateInitialPosition, StateBuiltLedger,
     AcquireDone, Accept, ourVars
<1>9. CASE \/ \E t \in Tx : OpenLedgerTx(t)
           \/ LedgerArrives
           \/ \E v \in Validators, l \in Ledgers : RecvValidation(v, l)
           \/ \E i \in Instants : Tick(i)
           \/ UNCHANGED vars
  BY Zenon, <1>7, <1>9 DEF OpenLedgerTx, LedgerArrives, RecvValidation, Tick, roundVars, vars, ourVars
<1> QED BY Zenon, <1>1, <1>2, <1>3, <1>4, <1>5, <1>6, <1>8, <1>9 DEF Next, Timer

\* The majority that an observer follows is that of the peers.
LEMMA ObserverVotes ==
  ASSUME OurInv, PeerInv, SetInv, NEW s, ObserverUpdates(s), NEW t \in AllTx, disputes[t] # NoDispute
  PROVE  t \in our'.set <=> t \in s
<1>0. /\ StateEstablish /\ our.seq # Leave /\ Present' # {} /\ ~crashed /\ ~proposing
      /\ \A p \in Present : positions[p].set = s
      /\ acquired[s] = "have"
  BY Zenon DEF ObserverUpdates, PeersAgree, Alive
<1>1. PICK stale :
        /\ stale \in SUBSET Present /\ positions' = Fresh(stale) /\ our' # NoPosition /\ our'.seq # Leave
        /\ disputes'[t] # NoDispute /\ disputes'[t].ourVote = Revote(stale)[t].ourVote
  BY Zenon, <1>0, EstablishVotes
<1>2. disputes'[t].ourVote = (t \in our'.set)
  <2>1. SetInv'
    BY Zenon, <1>0, EstablishKeepsSets
  <2> QED BY Zenon, <1>1, <2>1 DEF SetInv, VotesAre
<1> DEFINE d == disputes[t]
           w == UnVotes(d, stale)
<1>3. Counted(d, Peers) /\ d.yes \subseteq Present /\ d.no \subseteq Present
      /\ stale \in SUBSET Peers
  BY Zenon, <1>1 DEF PeerInv, VotesOK, PresentIn, Present, HasPosition
<1>4. \A p \in Present : p \in (IF t \in s THEN d.yes ELSE d.no)
  <2>1. Known(acquired, positions) = Present
    BY Zenon, <1>0 DEF Known, Present, HasPosition
  <2>2. \A p \in Present : p \in (IF t \in positions[p].set THEN d.yes ELSE d.no)
    BY Zenon, <1>0, <2>1 DEF SetInv, Follows
  <2> HIDE DEF d
  <2> QED BY Zenon, <1>0, <2>2
<1>5. Revote(stale)[t] = UpdateVote(w, ClosePercent, proposing)
  BY Zenon DEF Revote, PeerInv, VotesOK
<1> HIDE DEF d
<1>6. /\ Counted(w, Peers) /\ w.ourVote = d.ourVote
      /\ w.yes = d.yes \ stale /\ w.no = d.no \ stale
  BY <1>3, UnVotesCounted, PeersAssumption
<1>7. Present \ stale # {}
  <2>1. PICK p \in Peers : positions'[p] # NoPosition
    BY Zenon, <1>0 DEF Present, HasPosition
  <2>2. p \notin stale /\ positions[p] # NoPosition
    BY Zenon, <1>1, <2>1 DEF Fresh
  <2> QED BY Zenon, <2>2 DEF Present, HasPosition
<1> HIDE DEF w
<1>8. IsFiniteSet(w.yes) /\ IsFiniteSet(w.no)
  BY Zenon, <1>6, PeersAssumption, FS_Subset DEF Counted, Dispute
<1>9. /\ w.yays = Cardinality(w.yes) /\ w.nays = Cardinality(w.no) /\ w.ourVote \in BOOLEAN
      /\ w.yays \in Nat /\ w.nays \in Nat /\ w.yes \cap w.no = {} /\ d.yes \cap d.no = {}
  BY Zenon, <1>3, <1>6 DEF Counted, Dispute
<1>10. Revote(stale)[t].ourVote = NewVote(w, ClosePercent, proposing)
  BY Zenon, <1>5, <1>6 DEF UpdateVote, Counted, Dispute
<1>11. CASE t \in s
  <2>1. w.no = {} /\ w.yes # {}
    BY Zenon, <1>3, <1>4, <1>6, <1>7, <1>9, <1>11
  <2>2. w.nays = 0 /\ w.yays # 0
    BY Zenon, <1>8, <1>9, <2>1, FS_EmptySet
  <2>3. w.yays > w.nays
    BY <1>9, <2>2
  <2>4. NewVote(w, ClosePercent, proposing) = TRUE
    BY Zenon, <1>0, <1>9, <2>2, <2>3 DEF NewVote
  <2> QED BY Zenon, <1>1, <1>2, <1>10, <1>11, <2>4
<1>12. CASE t \notin s
  <2>1. w.yes = {} /\ w.no # {}
    BY Zenon, <1>3, <1>4, <1>6, <1>7, <1>9, <1>12
  <2>2. w.yays = 0 /\ w.nays # 0
    BY Zenon, <1>8, <1>9, <2>1, FS_EmptySet
  <2>3. ~(w.yays > w.nays)
    BY <1>9, <2>2
  <2>4. NewVote(w, ClosePercent, proposing) = FALSE
    BY <1>0, <1>9, <2>2, <2>3 DEF NewVote
  <2> QED BY Zenon, <1>1, <1>2, <1>10, <1>12, <2>4
<1> QED BY Zenon, <1>11, <1>12

\* For any peers and sets, across stale proposals, late sets and changes of the ledger:
\* updateOurPositions puts an observer on the side of peers that agree, on every
\* transaction in dispute.
THEOREM ObserverTakesSides == Spec => TakesSides
<1>1. OurInv /\ PeerInv /\ SetInv =>
        [\A s \in Sets : ObserverUpdates(s) =>
           \A t \in Disputed(disputes) : t \in our'.set <=> t \in s]_vars
  <2> SUFFICES ASSUME OurInv, PeerInv, SetInv, NEW s \in Sets, ObserverUpdates(s),
                      NEW t \in Disputed(disputes)
               PROVE  t \in our'.set <=> t \in s
    BY Zenon
  <2>1. t \in AllTx /\ disputes[t] # NoDispute
    BY Zenon DEF Disputed, PeerInv, VotesOK
  <2> QED BY Zenon, <2>1, ObserverVotes
<1> QED BY <1>1, OurInit, OurNext, PeerInit, PeerNext, SetInit, ReplayNext, SetNext, PTL
        DEF Spec, TakesSides

\* In a round whose last closed ledger does not change, one timer entry gives an observer
\* the set that the peers agree on, once createDisputes has compared it with its own.
\* After a change the disputes are gone and the set still counts as compared.
THEOREM ObserverJoinsPeers == Spec /\ [][prevHash' = prevHash]_vars => JoinsPeers
<1>1. OurInv /\ PeerInv /\ SetInv /\ ComparedInv =>
        [\A s \in Sets : ObserverUpdates(s) /\ s \in compares \cup {our.set} => our'.set = s]_vars
  <2> SUFFICES ASSUME OurInv, PeerInv, SetInv, ComparedInv, NEW s \in Sets, ObserverUpdates(s),
                      s \in compares \cup {our.set}
               PROVE  our'.set = s
    BY Zenon
  <2>1. \A t \in AllTx : disputes[t] = NoDispute => (t \in our'.set <=> t \in s)
    <3>1. \A t \in AllTx : disputes[t] = NoDispute => (t \in our'.set <=> t \in our.set)
      BY Zenon, EstablishVotes DEF ObserverUpdates
    <3>2. \A t \in AllTx : disputes[t] = NoDispute => (t \in our.set <=> t \in s)
      BY Zenon DEF ComparedInv
    <3> QED BY Zenon, <3>1, <3>2
  <2>2. \A t \in AllTx : t \in our'.set <=> t \in s
    BY Zenon, <2>1, ObserverVotes
  <2>3. s \subseteq AllTx /\ our'.set \subseteq AllTx
    <3>1. our'.set \subseteq our.set \cup AllTx
      BY Zenon, EstablishVotes DEF ObserverUpdates
    <3>2. our.set \subseteq AllTx /\ s \in AllSets
      BY Zenon, SetsAssumption DEF ComparedInv
    <3> QED BY ONLY <3>1, <3>2 DEF AllSets, AllTx
  <2> QED BY Zenon, <2>2, <2>3
<1> QED BY <1>1, OurInit, OurNext, PeerInit, PeerNext, SetInit, ReplayNext, SetNext,
        ComparedInit, ComparedNext, PTL DEF Spec, JoinsPeers
=============================================================================

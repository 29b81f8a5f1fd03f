----------------------- MODULE LedgerConsensusProofs ------------------------
(***************************************************************************)
(* Safety of a consensus round for any peers, transactions, ledgers and     *)
(* bounds: the votes counted are those of the peers that take part, the     *)
(* positions are for the ledger we want to build on, a node proposes only   *)
(* on its own ledger, and consensus locks the position in.                  *)
(***************************************************************************)
EXTENDS LedgerConsensus, FiniteSetTheorems, TLAPS

----------------------------------------------------------------------------
(* The counts of a dispute, for every finite set of peers *)

\* A dispute whose counts are those of its votes.
Counted(d, P) ==
  /\ d \in Dispute(P)
  /\ d.yays = Cardinality(d.yes) /\ d.nays = Cardinality(d.no)
  /\ d.yes \cap d.no = {}

\* Adding the votes of P to those of V adds as many as are new.
LEMMA AddVotes ==
  ASSUME NEW V, IsFiniteSet(V), NEW P, IsFiniteSet(P)
  PROVE  /\ Cardinality(V \cup P) = Cardinality(V) + Cardinality(P \ V)
         /\ Cardinality(V \cup P) \in Nat /\ Cardinality(V) \in Nat
         /\ Cardinality(P \ V) \in Nat
<1>1. IsFiniteSet(P \ V) /\ IsFiniteSet(V \cup P)
  BY Zenon, FS_Difference, FS_Union
<1>2. V \cup P = V \cup (P \ V) /\ V \cap (P \ V) = {}
  OBVIOUS
<1>3. /\ Cardinality(V) \in Nat /\ Cardinality(P \ V) \in Nat /\ Cardinality(V \cup P) \in Nat
  BY <1>1, FS_CardinalityType
<1>4. Cardinality(V \cup (P \ V))
        = Cardinality(V) + Cardinality(P \ V) - Cardinality(V \cap (P \ V))
  BY <1>1, FS_Union
<1>5. Cardinality(V \cap (P \ V)) = 0
  BY <1>2, FS_EmptySet
<1>6. Cardinality(V \cup P) = Cardinality(V) + Cardinality(P \ V)
  <2>1. Cardinality(V \cup P) = Cardinality(V \cup (P \ V))
    BY <1>2, Zenon
  <2> QED BY <2>1, <1>3, <1>4, <1>5
<1> QED BY <1>3, <1>6

\* Removing the votes of P from those of V removes the ones they have in common.
LEMMA RemoveVotes ==
  ASSUME NEW V, IsFiniteSet(V), NEW P, IsFiniteSet(P)
  PROVE  /\ Cardinality(V \ P) = Cardinality(V) - Cardinality(P \cap V)
         /\ Cardinality(V \ P) \in Nat /\ Cardinality(V) \in Nat
         /\ Cardinality(P \cap V) \in Nat
<1>1. IsFiniteSet(V \ P) /\ IsFiniteSet(P \cap V)
  BY FS_Difference, FS_Intersection
<1>2. /\ Cardinality(V) \in Nat /\ Cardinality(V \ P) \in Nat /\ Cardinality(P \cap V) \in Nat
  BY <1>1, FS_CardinalityType
<1>3. Cardinality(V \ P) = Cardinality(V) - Cardinality(V \cap P)
  BY Zenon, <1>1, FS_Difference
<1>4. V \cap P = P \cap V
  OBVIOUS
<1>5. Cardinality(V \cap P) = Cardinality(P \cap V)
  BY <1>4, Zenon
<1> QED BY <1>2, <1>3, <1>5

\* setVote of any set of peers keeps the counts right: whatever each of them
\* voted before, its vote is counted once, on the side it is on now.
LEMMA VoteYesCounted ==
  ASSUME NEW S, IsFiniteSet(S), NEW d, Counted(d, S), NEW P \in SUBSET S
  PROVE  /\ Counted(VoteYes(d, P), S)
         /\ VoteYes(d, P).ourVote = d.ourVote
         /\ VoteYes(d, P).yes = d.yes \cup P /\ VoteYes(d, P).no = d.no \ P
<1>0. d.yes \in SUBSET S /\ d.no \in SUBSET S
  BY DEF Counted, Dispute
<1>1. IsFiniteSet(d.yes) /\ IsFiniteSet(d.no) /\ IsFiniteSet(P)
  BY <1>0, FS_Subset
<1>2. /\ d.yays = Cardinality(d.yes) /\ d.nays = Cardinality(d.no)
      /\ d.yes \cap d.no = {} /\ d.ourVote \in BOOLEAN
  BY DEF Counted, Dispute
<1>3. d = [ourVote |-> d.ourVote, yes |-> d.yes, no |-> d.no, yays |-> d.yays, nays |-> d.nays]
  BY DEF Counted, Dispute
<1>4. /\ Cardinality(d.yes \cup P) = Cardinality(d.yes) + Cardinality(P \ d.yes)
      /\ Cardinality(d.yes \cup P) \in Nat
  BY <1>1, AddVotes
<1>5. /\ Cardinality(d.no \ P) = Cardinality(d.no) - Cardinality(P \cap d.no)
      /\ Cardinality(d.no \ P) \in Nat
  BY Zenon, <1>1, RemoveVotes
<1>6. VoteYes(d, P) =
        [d EXCEPT !.yes = d.yes \cup P, !.no = d.no \ P,
                  !.yays = Cardinality(d.yes \cup P), !.nays = Cardinality(d.no \ P)]
  BY Zenon, <1>2, <1>4, <1>5 DEF VoteYes
<1>7. VoteYes(d, P) =
        [ourVote |-> d.ourVote, yes |-> d.yes \cup P, no |-> d.no \ P,
         yays |-> Cardinality(d.yes \cup P), nays |-> Cardinality(d.no \ P)]
  BY Zenon, <1>3, <1>6
<1>8. (d.yes \cup P) \cap (d.no \ P) = {}
  BY <1>2
<1>9. /\ VoteYes(d, P).ourVote = d.ourVote
      /\ VoteYes(d, P).yes = d.yes \cup P /\ VoteYes(d, P).no = d.no \ P
      /\ VoteYes(d, P).yays = Cardinality(d.yes \cup P)
      /\ VoteYes(d, P).nays = Cardinality(d.no \ P)
  BY <1>7
<1>10. VoteYes(d, P) \in Dispute(S)
  BY <1>0, <1>2, <1>4, <1>5, <1>7 DEF Dispute
<1> QED BY <1>8, <1>9, <1>10 DEF Counted

\* The same for votes for no.
LEMMA VoteNoCounted ==
  ASSUME NEW S, IsFiniteSet(S), NEW d, Counted(d, S), NEW P \in SUBSET S
  PROVE  /\ Counted(VoteNo(d, P), S)
         /\ VoteNo(d, P).ourVote = d.ourVote
         /\ VoteNo(d, P).yes = d.yes \ P /\ VoteNo(d, P).no = d.no \cup P
<1>0. d.yes \in SUBSET S /\ d.no \in SUBSET S
  BY DEF Counted, Dispute
<1>1. IsFiniteSet(d.yes) /\ IsFiniteSet(d.no) /\ IsFiniteSet(P)
  BY <1>0, FS_Subset
<1>2. /\ d.yays = Cardinality(d.yes) /\ d.nays = Cardinality(d.no)
      /\ d.yes \cap d.no = {} /\ d.ourVote \in BOOLEAN
  BY DEF Counted, Dispute
<1>3. d = [ourVote |-> d.ourVote, yes |-> d.yes, no |-> d.no, yays |-> d.yays, nays |-> d.nays]
  BY DEF Counted, Dispute
<1>4. /\ Cardinality(d.no \cup P) = Cardinality(d.no) + Cardinality(P \ d.no)
      /\ Cardinality(d.no \cup P) \in Nat
  BY Zenon, <1>1, AddVotes
<1>5. /\ Cardinality(d.yes \ P) = Cardinality(d.yes) - Cardinality(P \cap d.yes)
      /\ Cardinality(d.yes \ P) \in Nat
  BY <1>1, RemoveVotes
<1>6. VoteNo(d, P) =
        [d EXCEPT !.no = d.no \cup P, !.yes = d.yes \ P,
                  !.nays = Cardinality(d.no \cup P), !.yays = Cardinality(d.yes \ P)]
  BY Zenon, <1>2, <1>4, <1>5 DEF VoteNo
<1>7. VoteNo(d, P) =
        [ourVote |-> d.ourVote, yes |-> d.yes \ P, no |-> d.no \cup P,
         yays |-> Cardinality(d.yes \ P), nays |-> Cardinality(d.no \cup P)]
  BY Zenon, <1>3, <1>6
<1>8. (d.yes \ P) \cap (d.no \cup P) = {}
  BY <1>2
<1>9. /\ VoteNo(d, P).ourVote = d.ourVote
      /\ VoteNo(d, P).yes = d.yes \ P /\ VoteNo(d, P).no = d.no \cup P
      /\ VoteNo(d, P).yays = Cardinality(d.yes \ P)
      /\ VoteNo(d, P).nays = Cardinality(d.no \cup P)
  BY <1>7
<1>10. VoteNo(d, P) \in Dispute(S)
  BY <1>0, <1>2, <1>4, <1>5, <1>7 DEF Dispute
<1> QED BY <1>8, <1>9, <1>10 DEF Counted

\* unVote of any set of peers keeps the counts right.
LEMMA UnVotesCounted ==
  ASSUME NEW S, IsFiniteSet(S), NEW d, Counted(d, S), NEW P \in SUBSET S
  PROVE  /\ Counted(UnVotes(d, P), S)
         /\ UnVotes(d, P).ourVote = d.ourVote
         /\ UnVotes(d, P).yes = d.yes \ P
         /\ UnVotes(d, P).no = d.no \ P
<1>0. d.yes \in SUBSET S /\ d.no \in SUBSET S
  BY DEF Counted, Dispute
<1>1. IsFiniteSet(d.yes) /\ IsFiniteSet(d.no) /\ IsFiniteSet(P)
  BY <1>0, FS_Subset
<1>2. /\ d.yays = Cardinality(d.yes) /\ d.nays = Cardinality(d.no)
      /\ d.yes \cap d.no = {} /\ d.ourVote \in BOOLEAN
  BY DEF Counted, Dispute
<1>3. d = [ourVote |-> d.ourVote, yes |-> d.yes, no |-> d.no, yays |-> d.yays, nays |-> d.nays]
  BY DEF Counted, Dispute
<1>4. /\ Cardinality(d.yes \ P) = Cardinality(d.yes) - Cardinality(P \cap d.yes)
      /\ Cardinality(d.yes \ P) \in Nat
  BY <1>1, RemoveVotes
<1>5. /\ Cardinality(d.no \ P) = Cardinality(d.no) - Cardinality(P \cap d.no)
      /\ Cardinality(d.no \ P) \in Nat
  BY Zenon, <1>1, RemoveVotes
<1>6. UnVotes(d, P) =
        [d EXCEPT !.yes = d.yes \ P, !.no = d.no \ P,
                  !.yays = Cardinality(d.yes \ P), !.nays = Cardinality(d.no \ P)]
  BY Zenon, <1>2, <1>4, <1>5 DEF UnVotes
<1>7. UnVotes(d, P) =
        [ourVote |-> d.ourVote, yes |-> d.yes \ P, no |-> d.no \ P,
         yays |-> Cardinality(d.yes \ P), nays |-> Cardinality(d.no \ P)]
  BY Zenon, <1>3, <1>6
<1>8. (d.yes \ P) \cap (d.no \ P) = {}
  BY <1>2
<1>9. /\ UnVotes(d, P).ourVote = d.ourVote
      /\ UnVotes(d, P).yes = d.yes \ P /\ UnVotes(d, P).no = d.no \ P
      /\ UnVotes(d, P).yays = Cardinality(d.yes \ P)
      /\ UnVotes(d, P).nays = Cardinality(d.no \ P)
  BY <1>7
<1>10. UnVotes(d, P) \in Dispute(S)
  BY <1>0, <1>2, <1>4, <1>5, <1>7 DEF Dispute
<1> QED BY <1>8, <1>9, <1>10 DEF Counted

----------------------------------------------------------------------------
(* Disputes *)

AllTx == Tx \cup VoteTx
PresentIn(pos) == {p \in Peers : pos[p] # NoPosition}

\* The disputes d are consistent with the positions pos: right counts, and
\* votes only of peers that have a position.
VotesOK(d, pos) ==
  /\ d \in [AllTx -> Dispute(Peers) \cup {NoDispute}]
  /\ \A t \in AllTx : d[t] # NoDispute =>
       Counted(d[t], Peers) /\ d[t].yes \subseteq PresentIn(pos) /\ d[t].no \subseteq PresentIn(pos)

\* A dispute whose counts are right is not the absent one.
LEMMA CountedIsDispute ==
  ASSUME NEW d, Counted(d, Peers)
  PROVE  d \in Dispute(Peers) /\ d # NoDispute
  BY NoDisputeAssumption DEF Counted

\* adjustCount keeps the disputes consistent when the peers it counts take part.
LEMMA AdjustCountOK ==
  ASSUME NEW d, NEW pos, NEW s, NEW P, VotesOK(d, pos), P \subseteq PresentIn(pos)
  PROVE  VotesOK(AdjustCount(d, s, P), pos)
<1> DEFINE e == AdjustCount(d, s, P)
<1>1. P \in SUBSET Peers
  BY DEF PresentIn
<1>2. DOMAIN d = AllTx
  BY DEF VotesOK
<1>3. ASSUME NEW t \in AllTx, d[t] = NoDispute
      PROVE  e[t] = NoDispute
  BY <1>2, <1>3 DEF AdjustCount
<1>4. ASSUME NEW t \in AllTx, d[t] # NoDispute
      PROVE  /\ Counted(e[t], Peers)
             /\ e[t].yes \subseteq PresentIn(pos) /\ e[t].no \subseteq PresentIn(pos)
  <2>1. e[t] \in {VoteYes(d[t], P), VoteNo(d[t], P)}
    BY <1>2, <1>4 DEF AdjustCount, SetVotes
  <2>2. /\ Counted(d[t], Peers)
        /\ d[t].yes \subseteq PresentIn(pos) /\ d[t].no \subseteq PresentIn(pos)
    BY <1>4 DEF VotesOK
  <2> HIDE DEF e
  <2>3. CASE e[t] = VoteYes(d[t], P)
    <3>1. Counted(e[t], Peers) /\ e[t].yes = d[t].yes \cup P /\ e[t].no = d[t].no \ P
      BY <1>1, <2>2, <2>3, PeersAssumption, VoteYesCounted
    <3> QED BY <2>2, <3>1
  <2>4. CASE e[t] = VoteNo(d[t], P)
    <3>1. Counted(e[t], Peers) /\ e[t].yes = d[t].yes \ P /\ e[t].no = d[t].no \cup P
      BY <1>1, <2>2, <2>4, PeersAssumption, VoteNoCounted
    <3> QED BY <2>2, <3>1
  <2> QED BY <2>1, <2>3, <2>4
<1>5. e = [t \in AllTx |-> e[t]]
  BY <1>2 DEF AdjustCount
<1> HIDE DEF e
<1>6. \A t \in AllTx : e[t] \in Dispute(Peers) \cup {NoDispute}
  BY <1>3, <1>4, CountedIsDispute
<1>7. e \in [AllTx -> Dispute(Peers) \cup {NoDispute}]
  BY <1>5, <1>6
<1>8. VotesOK(e, pos)
  BY <1>3, <1>4, <1>7 DEF VotesOK
<1> QED BY <1>8 DEF e

\* A new dispute starts with right counts.
LEMMA NewDisputeCounted ==
  ASSUME NEW v \in BOOLEAN
  PROVE  /\ Counted(NewDispute(v), Peers) /\ NewDispute(v).ourVote = v
         /\ NewDispute(v).yes = {} /\ NewDispute(v).no = {}
  BY FS_EmptySet DEF Counted, NewDispute, Dispute

\* addDisputedTransaction counts the peers whose set is at hand, and only these.
LEMMA AddDisputedOK ==
  ASSUME NEW acq, NEW pos, NEW ours, NEW t
  PROVE  /\ Counted(AddDisputed(acq, pos, ours, t), Peers)
         /\ AddDisputed(acq, pos, ours, t).ourVote = (t \in ours)
         /\ AddDisputed(acq, pos, ours, t).yes = With(acq, pos, t)
         /\ AddDisputed(acq, pos, ours, t).no = Known(acq, pos) \ With(acq, pos, t)
         /\ AddDisputed(acq, pos, ours, t).yes \subseteq PresentIn(pos)
         /\ AddDisputed(acq, pos, ours, t).no \subseteq PresentIn(pos)
<1> DEFINE W == With(acq, pos, t)
           N == Known(acq, pos) \ With(acq, pos, t)
           d0 == NewDispute(t \in ours)
           d1 == VoteYes(d0, W)
<1>1. /\ W \subseteq PresentIn(pos) /\ N \subseteq PresentIn(pos)
      /\ W \in SUBSET Peers /\ N \in SUBSET Peers
  BY DEF With, Known, PresentIn
<1>2. AddDisputed(acq, pos, ours, t) = VoteNo(d1, N)
  BY DEF AddDisputed, SetVotes
<1>3. Counted(d0, Peers) /\ d0.ourVote = (t \in ours) /\ d0.yes = {} /\ d0.no = {}
  <2>1. (t \in ours) \in BOOLEAN
    OBVIOUS
  <2> QED BY <2>1, NewDisputeCounted, Zenon
<1> HIDE DEF W, N, d0
<1>4. Counted(d1, Peers) /\ d1.ourVote = d0.ourVote /\ d1.yes = d0.yes \cup W /\ d1.no = d0.no \ W
  BY <1>1, <1>3, PeersAssumption, VoteYesCounted
<1> HIDE DEF d1
<1>5. /\ Counted(VoteNo(d1, N), Peers) /\ VoteNo(d1, N).ourVote = d1.ourVote
      /\ VoteNo(d1, N).yes = d1.yes \ N /\ VoteNo(d1, N).no = d1.no \cup N
  BY <1>1, <1>4, PeersAssumption, VoteNoCounted
<1>6. W \ N = W
  BY DEF W, N
<1>7. d1.yes \ N = W /\ d1.no \cup N = N
  BY <1>3, <1>4, <1>6
<1> QED BY <1>1, <1>2, <1>3, <1>4, <1>5, <1>7 DEF W, N

----------------------------------------------------------------------------
(* Our side of the round *)

Late == {"FINISHED", "BUILT_LEDGER", "ENDED"}

\* What is sent is what we proposed, in order; a node in PRE_CLOSE has no
\* position; a proposer has the ledger it builds on and has not bowed out.
OurInv ==
  /\ state \in Late => pc = "idle"
  /\ acceptJob = "queued" => state = "FINISHED"
  /\ openParent \in Ledgers
  /\ DOMAIN our = {"prev", "seq", "set", "ct"} /\ our.seq \in 0..Leave
  /\ state = "PRE_CLOSE" => our = NoPosition /\ sent = {}
  /\ state # "PRE_CLOSE" => our.prev \in Ledgers
  /\ proposing => /\ haveLCL /\ prevLedger = prevHash /\ openParent = prevHash
                  /\ (state # "PRE_CLOSE" => our.prev = prevLedger)
                  /\ our.seq # Leave /\ \A a \in sent : a.seq # Leave
  /\ \A a \in sent : a.seq \in 0..our.seq /\ (a.seq = our.seq => a = our)
  /\ \A a, b \in sent : a.seq = b.seq => a = b

ourInvVars == <<state, pc, acceptJob, openParent, our, sent, proposing, haveLCL,
                prevLedger, prevHash>>

\* Steps that leave our side alone keep the invariant.
LEMMA OurFrame ==
  ASSUME OurInv, UNCHANGED ourInvVars
  PROVE  OurInv'
  BY DEF OurInv, ourInvVars, Late

\* The constructor establishes the invariant.
LEMMA OurInit == Init => OurInv
<1> SUFFICES ASSUME Init PROVE OurInv
  OBVIOUS
<1>1. /\ state = "PRE_CLOSE" /\ acceptJob = "none" /\ our = NoPosition /\ sent = {}
      /\ openParent \in Ledgers
      /\ proposing => haveLCL /\ prevLedger = prevHash /\ openParent = prevHash
  BY DEF Init
<1> QED BY <1>1, MaxSeqAssumption DEF OurInv, Late, NoPosition, Leave

\* Changing the ledger ends our part in the round.
LEMMA OurChangeLCL ==
  ASSUME OurInv, NEW l, ChangeLCL(l), Early, UNCHANGED <<state, acceptJob, openParent>>
  PROVE  OurInv'
<1>1. /\ proposing' = FALSE
      /\ our' = IF BowsOut THEN [our EXCEPT !.seq = Leave] ELSE our
      /\ sent' = IF BowsOut THEN sent \cup {our'} ELSE sent
  BY DEF ChangeLCL, BowOut
<1>2. state \notin Late
  BY DEF Early, Late
<1>3. Leave \in Nat
  BY MaxSeqAssumption DEF Leave
<1>4. CASE BowsOut
  <2>1. our.seq \in 0..Leave /\ our.seq # Leave /\ state # "PRE_CLOSE"
    BY <1>4 DEF BowsOut, OurInv
  <2>2. /\ DOMAIN our' = {"prev", "seq", "set", "ct"} /\ our'.seq = Leave
        /\ our'.prev = our.prev /\ sent' = sent \cup {our'}
    BY <1>1, <1>4 DEF OurInv
  <2>3. \A a \in sent : a.seq \in 0..Leave /\ a.seq # Leave
    BY <2>1, <1>3 DEF OurInv
  <2> QED BY <1>1, <1>2, <1>3, <2>1, <2>2, <2>3 DEF OurInv
<1>5. CASE ~BowsOut
  <2>1. our' = our /\ sent' = sent
    BY <1>1, <1>5
  <2> QED BY <1>1, <1>2, <2>1 DEF OurInv
<1> QED BY <1>4, <1>5

\* Closing the ledger gives us our first position.
LEMMA OurPreClose ==
  ASSUME OurInv, StatePreClose
  PROVE  OurInv'
<1>1. /\ state = "PRE_CLOSE" /\ pc' = "idle"
      /\ UNCHANGED <<proposing, sent, haveLCL, prevLedger, prevHash, openParent, acceptJob>>
  BY DEF StatePreClose, lclVars, endVars
<1>2. CASE UNCHANGED <<state, our>>
  BY <1>1, <1>2 DEF OurInv
<1>3. CASE /\ state' = "INITIAL_POSITION"
           /\ \E x, ct : our' = [prev |-> openParent, seq |-> 0, set |-> x, ct |-> ct]
  <2>1. /\ DOMAIN our' = {"prev", "seq", "set", "ct"} /\ our'.seq = 0
        /\ our'.prev = openParent
    BY <1>3
  <2>2. Leave \in Nat /\ Leave # 0
    BY MaxSeqAssumption DEF Leave
  <2> QED BY <1>1, <1>3, <2>1, <2>2 DEF OurInv, Late
<1> QED BY ZenonT(60), <1>2, <1>3 DEF StatePreClose, TakeInitialPosition

\* The parts of stateEstablish.
LEMMA EstablishStep ==
  ASSUME StateEstablish
  PROVE  \E stale, ourStale, x, u :
           /\ stale \in SUBSET Present
           /\ u = UpdateOurPositions(Fresh(stale), Revote(stale), x, ourStale)
           /\ u.our.seq # Leave \/ our.seq = Leave
           /\ CheckConsensus(u)
<1> HIDE DEF CheckConsensus, UpdateOurPositions, Fresh, Revote
<1> QED BY DEF StateEstablish

\* updateOurPositions uses a fresh sequence number for every new position.
LEMMA OurEstablish ==
  ASSUME OurInv, StateEstablish
  PROVE  OurInv'
<1>1. /\ state = "ESTABLISH" /\ pc' = "idle"
      /\ UNCHANGED <<proposing, haveLCL, prevLedger, prevHash, openParent>>
  BY DEF StateEstablish, lclVars, envVars
<1>2. PICK stale, ourStale, x, u :
        /\ u = UpdateOurPositions(Fresh(stale), Revote(stale), x, ourStale)
        /\ u.our.seq # Leave \/ our.seq = Leave
        /\ CheckConsensus(u)
  BY EstablishStep
<1> DEFINE voted == Revote(stale)
<1>3. /\ u.our = our \/ (our.seq # Leave /\ \E set, ct : u.our = ChangePosition(set, ct))
      /\ u.sent => proposing /\ u.our # our
  <2> DEFINE changes == \/ {t \in Disputed(disputes) : voted[t].ourVote # disputes[t].ourVote} # {}
                        \/ x.closeTime # Round(our.ct) \/ ourStale
             moves == changes /\ our.seq # Leave
  <2>1. u.our = our \/ (moves /\ \E set, ct : u.our = ChangePosition(set, ct))
    <3> DEFINE set == RevisedSet({t \in Disputed(disputes) :
                                  voted[t].ourVote # disputes[t].ourVote}, voted)
    <3>1. u.our = IF moves THEN ChangePosition(set, x.closeTime) ELSE our
      BY ZenonT(60), <1>2 DEF UpdateOurPositions
    <3> HIDE DEF set, moves
    <3> QED BY <3>1
  <2>2. u.sent = (moves /\ proposing)
    BY ZenonT(60), <1>2 DEF UpdateOurPositions
  <2>3. moves => u.our # our
    <3> SUFFICES ASSUME moves PROVE u.our # our
      OBVIOUS
    <3>1. u.our.seq = our.seq + 1 /\ our.seq \in Nat
      <4>1. our.seq \in Nat
        BY MaxSeqAssumption DEF OurInv, Leave
      <4>2. \E set, ct : u.our = ChangePosition(set, ct)
        BY ZenonT(60), <2>1, <1>2 DEF UpdateOurPositions
      <4>3. u.our.seq = our.seq + 1
        BY <4>2 DEF ChangePosition
      <4> QED BY <4>1, <4>3
    <3> QED BY <3>1
  <2> HIDE DEF changes
  <2> QED BY ZenonT(60), <2>1, <2>2, <2>3
<1>4. /\ u.our.seq # Leave \/ our.seq = Leave
      /\ our' = u.our
      /\ sent' = IF u.sent THEN sent \cup {u.our} ELSE sent
      /\ (state' = "FINISHED") \/ (state' = "ESTABLISH" /\ acceptJob' = acceptJob)
  BY <1>1, <1>2 DEF CheckConsensus
<1>5. CASE u.our = our
  <2>1. our' = our /\ sent' = sent
    BY <1>3, <1>4, <1>5
  <2> QED BY <1>1, <1>4, <2>1 DEF OurInv
<1>6. CASE our.seq # Leave /\ \E set, ct : u.our = ChangePosition(set, ct)
  <2>1. /\ DOMAIN our' = {"prev", "seq", "set", "ct"}
        /\ our'.seq = our.seq + 1 /\ our'.prev = our.prev
    BY <1>4, <1>6 DEF OurInv, ChangePosition
  <2>2. our.seq \in 0..Leave /\ our'.seq # Leave /\ Leave \in Nat
    BY <1>4, <1>6, MaxSeqAssumption DEF OurInv, Leave
  <2>3. our'.seq \in 0..Leave
    BY <1>6, <2>1, <2>2
  <2>4. \A a \in sent : a.seq \in 0..our.seq
    BY DEF OurInv
  <2>5. \A a \in sent : a.seq \in 0..our'.seq /\ a.seq # our'.seq
    BY <2>1, <2>2, <2>4
  <2>6. sent' = sent \/ sent' = sent \cup {our'}
    BY <1>4
  <2>7. /\ \A a \in sent' : a.seq \in 0..our'.seq /\ (a.seq = our'.seq => a = our')
        /\ \A a, b \in sent' : a.seq = b.seq => a = b
    BY <2>2, <2>3, <2>5, <2>6 DEF OurInv
  <2>8. proposing' => /\ our'.prev = prevLedger'
                      /\ our'.seq # Leave /\ \A a \in sent' : a.seq # Leave
    BY <1>1, <2>1, <2>2, <2>6 DEF OurInv
  <2> QED BY <1>1, <1>4, <2>1, <2>3, <2>7, <2>8 DEF OurInv
<1> QED BY <1>3, <1>5, <1>6

\* Every step keeps the invariant of our side.
LEMMA OurNext == OurInv /\ [Next]_vars => OurInv'
<1> SUFFICES ASSUME OurInv, [Next]_vars PROVE OurInv'
  OBVIOUS
<1>1. CASE TimerCheckLCL
  <2>1. Early /\ UNCHANGED <<state, acceptJob, openParent>>
    BY <1>1 DEF TimerCheckLCL, endVars, envVars
  <2>2. CASE \E l : ChangeLCL(l)
    BY <2>1, <2>2, OurChangeLCL
  <2>3. CASE UNCHANGED <<lclVars, ourVars>>
    BY <2>1, <2>3 DEF OurInv, lclVars, ourVars, Early, Late
  <2> QED BY <1>1, <2>2, <2>3 DEF TimerCheckLCL
<1>2. CASE PlaybackEnds
  BY <1>2 DEF PlaybackEnds, OurInv, lclVars, ourVars, endVars, envVars, Late
<1>3. CASE SwitchLedger
  <2>1. /\ pc = "switch" /\ state \notin Late
        /\ UNCHANGED <<state, acceptJob, openParent, our, sent, proposing, prevHash>>
    BY ZenonT(60), <1>3 DEF SwitchLedger, OurInv, ourVars, endVars, envVars, lclVars
  <2>2. prevLedger = prevHash => UNCHANGED lclVars
    BY <1>3 DEF SwitchLedger
  <2> QED BY <2>1, <2>2 DEF OurInv, lclVars
<1>4. CASE \E p \in Peers : PlaybackStep(p)
  BY <1>4, OurFrame DEF PlaybackStep, ourInvVars, lclVars, ourVars, endVars, envVars
<1>5. CASE StatePreClose
  BY <1>5, OurPreClose
<1>6. CASE StateInitialPosition
  <2>1. /\ state = "INITIAL_POSITION" /\ sent' \in {sent, sent \cup {our}}
        /\ sent' # sent => proposing
        /\ state' \in {"INITIAL_POSITION", "ESTABLISH"}
        /\ UNCHANGED <<acceptJob, openParent, our, proposing, haveLCL, prevLedger, prevHash>>
    BY <1>6 DEF StateInitialPosition, lclVars, endVars, envVars
  <2>2. our.seq \in 0..our.seq
    BY MaxSeqAssumption DEF OurInv, Leave
  <2> QED BY <2>1, <2>2 DEF OurInv, Late
<1>7. CASE StateEstablish
  BY <1>7, OurEstablish
<1>8. CASE StateBuiltLedger
  BY <1>8 DEF StateBuiltLedger, OurInv, lclVars, ourVars, endVars, envVars
<1>9. CASE \E p \in Peers, n \in Proposals : ReceiveProposal(p, n)
  BY <1>9, OurFrame DEF ReceiveProposal, ourInvVars, lclVars, ourVars, endVars, envVars
<1>10. CASE \E s \in Sets, r \in {"ok", "failed"} : AcquireDone(s, r)
  BY <1>10, OurFrame DEF AcquireDone, ourInvVars, lclVars, ourVars, endVars, envVars
<1>11. CASE \E s \in Sets : CompleteAcquire(s)
  BY <1>11, OurFrame DEF CompleteAcquire, ourInvVars, lclVars, ourVars, endVars, envVars
<1>12. CASE \E ok \in BOOLEAN : Accept(ok)
  <2>1. /\ state = "FINISHED" /\ pc = "idle" /\ acceptJob' = "done"
        /\ state' \in {"FINISHED", "BUILT_LEDGER"}
        /\ UNCHANGED <<pc, openParent, our, sent, proposing, haveLCL, prevLedger, prevHash>>
    BY <1>12 DEF Accept, OurInv, lclVars, ourVars, envVars
  <2> QED BY <2>1 DEF OurInv
<1>13. CASE \E t \in Tx : OpenLedgerTx(t)
  BY <1>13, OurFrame DEF OpenLedgerTx, ourInvVars, roundVars, lclVars, ourVars, endVars
<1>14. CASE LedgerArrives
  BY <1>14, OurFrame DEF LedgerArrives, ourInvVars, roundVars, lclVars, ourVars, endVars
<1>15. CASE \E v \in Validators, l \in Ledgers : RecvValidation(v, l)
  BY <1>15, OurFrame DEF RecvValidation, ourInvVars, roundVars, lclVars, ourVars, endVars
<1>16. CASE \E i \in Instants : Tick(i)
  BY <1>16, OurFrame DEF Tick, ourInvVars, roundVars, lclVars, ourVars, endVars, envVars
<1>17. CASE UNCHANGED vars
  BY <1>17, OurFrame DEF vars, ourInvVars, lclVars, ourVars, endVars, envVars
<1> QED BY <1>1, <1>2, <1>3, <1>4, <1>5, <1>6, <1>7, <1>8, <1>9, <1>10, <1>11, <1>12,
           <1>13, <1>14, <1>15, <1>16, <1>17 DEF Next, Timer

\* For any peers, ledgers and course of events, a node proposes only on the
\* ledger it builds on and has.
THEOREM AlwaysProposesOnItsLedger == Spec => []ProposesOnItsLedger
<1>1. OurInv => ProposesOnItsLedger
  BY DEF OurInv, ProposesOnItsLedger
<1> QED BY <1>1, OurInit, OurNext, PTL DEF Spec

\* Whatever makes us change our position, bow out or send it again, two
\* different positions of ours never go out under one sequence number.
THEOREM NeverEquivocates == Spec => []NoEquivocation
<1>1. OurInv => NoEquivocation
  BY DEF OurInv, NoEquivocation
<1> QED BY <1>1, OurInit, OurNext, PTL DEF Spec

\* From FINISHED on the position and its ledger stand, and accept builds them.
THEOREM ConsensusLocksIn == Spec => LockedIn
<1> DEFINE Locked == (state \in {"FINISHED", "BUILT_LEDGER"}) =>
             /\ our' = our /\ prevLedger' = prevLedger
             /\ (built' # built => (built'.set = our.set /\ built'.prev = prevLedger))
<1>1. OurInv /\ [Next]_vars => [Locked]_vars
  <2> SUFFICES ASSUME OurInv, Next, state \in {"FINISHED", "BUILT_LEDGER"}
               PROVE  /\ our' = our /\ prevLedger' = prevLedger
                      /\ (built' # built => (built'.set = our.set /\ built'.prev = prevLedger))
    OBVIOUS
  <2>1. pc = "idle"
    BY DEF OurInv, Late
  <2>2. CASE Timer
    <3>1. StateBuiltLedger
      BY Zenon, <2>1, <2>2 DEF Timer, TimerCheckLCL, Early, PlaybackEnds, SwitchLedger, PlaybackStep,
                        StatePreClose, StateInitialPosition, StateEstablish
    <3> QED BY <3>1 DEF StateBuiltLedger, lclVars, ourVars, endVars
  <2>3. CASE \E ok \in BOOLEAN : Accept(ok)
    BY <2>3 DEF Accept, lclVars, ourVars
  <2>4. CASE ~Timer /\ ~\E ok \in BOOLEAN : Accept(ok)
    <3>1. UNCHANGED <<lclVars, ourVars, endVars>>
      BY ZenonT(60), <2>4 DEF Next, ReceiveProposal, AcquireDone, CompleteAcquire, OpenLedgerTx,
                  LedgerArrives, RecvValidation, Tick, roundVars
    <3> QED BY <3>1 DEF lclVars, ourVars, endVars
  <2> QED BY <2>2, <2>3, <2>4
<1> QED BY <1>1, OurInit, OurNext, PTL DEF Spec, LockedIn

\* Nothing is sent after the bow-out, whatever the rest of the round does.
THEOREM StaysSilent == Spec => SilentAfterBowOut
<1> DEFINE Silent == (\E a \in sent : a.seq = Leave) => sent' = sent
<1>1. OurInv /\ [Next]_vars => [Silent]_vars
  <2> SUFFICES ASSUME OurInv, Next, NEW a \in sent, a.seq = Leave
               PROVE  sent' = sent
    OBVIOUS
  <2>1. ~proposing
    BY DEF OurInv
  <2>2. CASE TimerCheckLCL
    BY <2>1, <2>2 DEF TimerCheckLCL, ChangeLCL, BowOut, BowsOut, ourVars
  <2>3. CASE StateInitialPosition
    BY <2>1, <2>3 DEF StateInitialPosition
  <2>4. CASE StateEstablish
    <3>1. PICK stale, ourStale, x, u :
            /\ u = UpdateOurPositions(Fresh(stale), Revote(stale), x, ourStale)
            /\ sent' = IF u.sent THEN sent \cup {u.our} ELSE sent
      BY Zenon, <2>4, EstablishStep DEF CheckConsensus
    <3>2. ~u.sent
      BY ZenonT(60), <2>1, <3>1 DEF UpdateOurPositions
    <3> QED BY <3>1, <3>2
  <2>5. CASE ~TimerCheckLCL /\ ~StateInitialPosition /\ ~StateEstablish
    BY ZenonT(60), <2>5 DEF Next, Timer, PlaybackEnds, SwitchLedger, PlaybackStep, StatePreClose,
                StateBuiltLedger, ReceiveProposal, AcquireDone, CompleteAcquire, Accept,
                OpenLedgerTx, LedgerArrives, RecvValidation, Tick, roundVars, ourVars
  <2> QED BY <2>2, <2>3, <2>4, <2>5
<1> QED BY <1>1, OurInit, OurNext, PTL DEF Spec, SilentAfterBowOut

----------------------------------------------------------------------------
(* The peers' side of the round *)

\* The votes counted are those of peers with a position, and positions are for
\* the ledger we want to build on.
PeerInv ==
  /\ prevHash \in Ledgers
  /\ positions = [p \in Peers |-> positions[p]]
  /\ VotesOK(disputes, positions)
  /\ PositionsMatchLedger

\* Disputes stay consistent when more peers take part.
LEMMA VotesOKMonotone ==
  ASSUME NEW d, NEW pos, NEW qos, VotesOK(d, pos), PresentIn(pos) \subseteq PresentIn(qos)
  PROVE  VotesOK(d, qos)
  BY ZenonT(60) DEF VotesOK

\* createDisputes counts only peers that take part.
LEMMA CreateDisputesOK ==
  ASSUME NEW d, NEW acq, NEW pos, NEW ours, NEW S, VotesOK(d, pos)
  PROVE  VotesOK(CreateDisputes(d, acq, pos, ours, S), pos)
<1> DEFINE e == CreateDisputes(d, acq, pos, ours, S)
<1>1. d \in [AllTx -> Dispute(Peers) \cup {NoDispute}] /\ DOMAIN d = AllTx
  BY ZenonT(60) DEF VotesOK
<1>2. e = [t \in AllTx |-> e[t]]
  BY <1>1 DEF CreateDisputes
<1>3. ASSUME NEW t \in AllTx
      PROVE  /\ e[t] \in Dispute(Peers) \cup {NoDispute}
             /\ e[t] # NoDispute => /\ Counted(e[t], Peers) 
                                    /\ e[t].yes \subseteq PresentIn(pos)
                                    /\ e[t].no \subseteq PresentIn(pos)
  <2>1. e[t] = d[t] \/ e[t] = AddDisputed(acq, pos, ours, t)
    BY <1>1 DEF CreateDisputes
  <2> HIDE DEF e
  <2>2. CASE e[t] = d[t]
    BY <2>2, <1>1 DEF VotesOK
  <2>3. CASE e[t] = AddDisputed(acq, pos, ours, t)
    BY <2>3, AddDisputedOK, CountedIsDispute
  <2> QED BY <2>1, <2>2, <2>3
<1> HIDE DEF e
<1>4. e \in [AllTx -> Dispute(Peers) \cup {NoDispute}]
  BY <1>2, <1>3
<1>5. VotesOK(e, pos)
  BY <1>3, <1>4 DEF VotesOK
<1> QED BY <1>5 DEF e

\* Without their votes, peers may leave.
LEMMA UnVotesOK ==
  ASSUME NEW d, NEW pos, NEW qos, NEW P \in SUBSET Peers, VotesOK(d, pos),
         PresentIn(pos) \ P \subseteq PresentIn(qos),
         NEW e, e = [t \in AllTx |-> e[t]],
         \A t \in AllTx : d[t] = NoDispute => e[t] = NoDispute,
         \A t \in AllTx : d[t] # NoDispute => 
            /\ Counted(e[t], Peers) 
            /\ e[t].yes = UnVotes(d[t], P).yes /\ e[t].no = UnVotes(d[t], P).no
  PROVE  VotesOK(e, qos)
<1>1. ASSUME NEW t \in AllTx, d[t] # NoDispute
      PROVE  /\ Counted(e[t], Peers) /\ e[t] \in Dispute(Peers)
             /\ e[t].yes \subseteq PresentIn(qos) /\ e[t].no \subseteq PresentIn(qos)
  <2>1. /\ Counted(d[t], Peers)
        /\ d[t].yes \subseteq PresentIn(pos) /\ d[t].no \subseteq PresentIn(pos)
    BY <1>1 DEF VotesOK
  <2>2. UnVotes(d[t], P).yes = d[t].yes \ P /\ UnVotes(d[t], P).no = d[t].no \ P
    <3>1. Counted(d[t], Peers) /\ IsFiniteSet(Peers)
      BY <2>1, PeersAssumption
    <3> QED BY ONLY <3>1, UnVotesCounted, P \in SUBSET Peers
  <2>3. Counted(e[t], Peers) /\ e[t].yes = d[t].yes \ P /\ e[t].no = d[t].no \ P
    BY <1>1, <2>2
  <2> QED BY <2>1, <2>3, CountedIsDispute
<1>2. e \in [AllTx -> Dispute(Peers) \cup {NoDispute}]
  <2>1. \A t \in AllTx : e[t] \in Dispute(Peers) \cup {NoDispute}
    BY <1>1
  <2> QED BY <2>1
<1> QED BY <1>1, <1>2 DEF VotesOK

\* Each way in which disputes and positions change keeps the peers' side.
LEMMA MapCompleteOK ==
  ASSUME NEW s, NEW pos, VotesOK(disputes, pos), MapComplete(s, pos)
  PROVE  VotesOK(disputes', pos)
<1> DEFINE d == IF CompareNow(s)
                  THEN CreateDisputes(disputes, acquired, pos, our.set, {s})
                  ELSE disputes
<1>1. VotesOK(d, pos)
  BY CreateDisputesOK
<1>2. Holders(pos, s) \subseteq PresentIn(pos)
  BY DEF Holders, PresentIn
<1>3. disputes' = disputes \/ disputes' = AdjustCount(d, s, Holders(pos, s))
  BY DEF MapComplete
<1> HIDE DEF d
<1> QED BY <1>1, <1>2, <1>3, AdjustCountOK

\* A proposal for our ledger, received or replayed.
LEMMA PeerPositionOK ==
  ASSUME PeerInv, NEW p \in Peers, NEW n, n.prev = prevHash, PeerPosition(p, n),
         UNCHANGED prevHash
  PROVE  PeerInv'
<1>1. n # NoPosition
  BY LedgersAssumption DEF PeerInv, NoPosition
<1>2. CASE UNCHANGED <<peerVars, setVars, crashed>>
  BY <1>2 DEF PeerInv, peerVars, setVars, PositionsMatchLedger, Present, HasPosition
<1>3. CASE ~Obsolete(p, n) /\ PeerLeaves(p)
  <2>1. /\ positions' = [positions EXCEPT ![p] = NoPosition] /\ dead' = dead \cup {p}
        /\ disputes' = [t \in AllTx |-> IF disputes[t] = NoDispute THEN NoDispute
                                        ELSE UnVotes(disputes[t], {p})]
    BY <1>3 DEF PeerLeaves, PeerInv, VotesOK
  <2>2. /\ positions' = [q \in Peers |-> positions'[q]] 
        /\ positions'[p] = NoPosition
        /\ \A q \in Peers \ {p} : positions'[q] = positions[q]
    BY <2>1 DEF PeerInv
  <2>3. PresentIn(positions) \ {p} \subseteq PresentIn(positions')
    BY <2>2 DEF PresentIn
  <2>4. \A t \in AllTx : disputes[t] # NoDispute => Counted(disputes'[t], Peers)
    <3> SUFFICES ASSUME NEW t \in AllTx, disputes[t] # NoDispute
                 PROVE  Counted(disputes'[t], Peers)
      OBVIOUS
    <3>1. Counted(disputes[t], Peers) /\ disputes'[t] = UnVotes(disputes[t], {p})
      BY <2>1 DEF PeerInv, VotesOK
    <3>2. {p} \in SUBSET Peers /\ IsFiniteSet(Peers)
      BY PeersAssumption
    <3>3. Counted(UnVotes(disputes[t], {p}), Peers)
      BY ONLY <3>1, <3>2, UnVotesCounted
    <3> QED BY ONLY <3>1, <3>3
  <2>5. VotesOK(disputes', positions')
    <3> DEFINE e == disputes'
    <3>1. /\ e = [t \in AllTx |-> e[t]]
          /\ \A t \in AllTx : disputes[t] = NoDispute => e[t] = NoDispute
          /\ \A t \in AllTx : disputes[t] # NoDispute => e[t] = UnVotes(disputes[t], {p})
      BY <2>1
    <3>2. VotesOK(disputes, positions) /\ {p} \in SUBSET Peers
      BY DEF PeerInv
    <3> HIDE DEF e
    <3>3. VotesOK(e, positions')
      BY <3>1, <3>2, <2>3, <2>4, UnVotesOK DEF e
    <3> QED BY <3>3 DEF e
  <2>6. PositionsMatchLedger'
    BY <2>1, <2>2 DEF PeerInv, PositionsMatchLedger, Present, HasPosition
  <2> QED BY <2>2, <2>5, <2>6 DEF PeerInv
<1>4. CASE /\ ~Obsolete(p, n)
           /\ positions' = [positions EXCEPT ![p] = n]
           /\ TakeSet(p, n.set, [positions EXCEPT ![p] = n])
           /\ UNCHANGED dead
  <2> DEFINE pos == [positions EXCEPT ![p] = n]
  <2>1. /\ pos = [q \in Peers |-> pos[q]] /\ pos[p] = n
        /\ \A q \in Peers \ {p} : pos[q] = positions[q]
    BY DEF PeerInv
  <2>2. p \in PresentIn(pos) /\ PresentIn(positions) \subseteq PresentIn(pos)
    BY <1>1, <2>1 DEF PresentIn
  <2>3. positions' = pos /\ dead' = dead /\ TakeSet(p, n.set, pos)
    BY <1>4
  <2> HIDE DEF pos
  <2>4. VotesOK(disputes, pos)
    BY <2>2, VotesOKMonotone DEF PeerInv
  <2>5. VotesOK(disputes', pos)
    <3>1. CASE disputes' = AdjustCount(disputes, n.set, {p})
      BY <2>2, <2>4, <3>1, AdjustCountOK
    <3>2. CASE UNCHANGED disputes
      BY <2>4, <3>2
    <3>3. CASE MapComplete(n.set, pos)
      BY <2>4, <3>3, MapCompleteOK
    <3> QED BY <2>3, <3>1, <3>2, <3>3 DEF TakeSet, setVars
  <2>6. PositionsMatchLedger'
    BY <1>4, <2>1, <2>3 DEF PeerInv, PositionsMatchLedger, Present, HasPosition, Obsolete
  <2> QED BY <2>1, <2>3, <2>5, <2>6 DEF PeerInv
<1> QED BY <1>2, <1>3, <1>4 DEF PeerPosition

\* Steps that leave the peers' side alone.
LEMMA PeerFrame ==
  ASSUME PeerInv, UNCHANGED <<prevHash, positions, dead, disputes>>
  PROVE  PeerInv'
  BY DEF PeerInv, PositionsMatchLedger, Present, HasPosition

\* updateVote changes only our own vote.
LEMMA UpdateVoteCounted ==
  ASSUME NEW S, NEW d, Counted(d, S), NEW percentTime, NEW amProposing
  PROVE  /\ Counted(UpdateVote(d, percentTime, amProposing), S)
         /\ UpdateVote(d, percentTime, amProposing).yes = d.yes
         /\ UpdateVote(d, percentTime, amProposing).no = d.no
<1> DEFINE v == NewVote(d, percentTime, amProposing)
<1>1. v \in BOOLEAN
  <2>1. CASE IF d.ourVote THEN d.nays = 0 ELSE d.yays = 0
    BY <2>1 DEF NewVote, Counted, Dispute
  <2>2. CASE ~(IF d.ourVote THEN d.nays = 0 ELSE d.yays = 0)
    <3>1. CASE amProposing
      BY <2>2, <3>1 DEF NewVote
    <3>2. CASE ~amProposing
      BY <2>2, <3>2 DEF NewVote
    <3> QED BY <3>1, <3>2
  <2> QED BY <2>1, <2>2
<1>2. UpdateVote(d, percentTime, amProposing) = [d EXCEPT !.ourVote = v]
  BY DEF UpdateVote
<1> HIDE DEF v
<1> QED BY <1>1, <1>2 DEF Counted, Dispute

\* updateOurPositions takes back the votes of the stale peers before it votes.
LEMMA RevoteCounted ==
  ASSUME PeerInv, NEW stale \in SUBSET Peers, NEW t \in AllTx, disputes[t] # NoDispute
  PROVE  /\ Counted(Revote(stale)[t], Peers)
         /\ Revote(stale)[t].yes = UnVotes(disputes[t], stale).yes
         /\ Revote(stale)[t].no = UnVotes(disputes[t], stale).no
<1> DEFINE w == UnVotes(disputes[t], stale)
<1>1. Counted(disputes[t], Peers)
  BY DEF PeerInv, VotesOK
<1>2. Counted(UnVotes(disputes[t], stale), Peers)
  BY <1>1, UnVotesCounted, PeersAssumption
<1>3. Revote(stale)[t] = UpdateVote(w, ClosePercent, proposing)
  BY DEF Revote, PeerInv, VotesOK
<1> HIDE DEF w
<1>4. /\ Counted(UpdateVote(w, ClosePercent, proposing), Peers)
      /\ UpdateVote(w, ClosePercent, proposing).yes = w.yes
      /\ UpdateVote(w, ClosePercent, proposing).no = w.no
  BY ONLY <1>2, UpdateVoteCounted DEF w
<1> QED BY ONLY <1>3, <1>4 DEF w

\* updateOurPositions drops stale peers together with their votes.
LEMMA PeerEstablish ==
  ASSUME PeerInv, StateEstablish
  PROVE  PeerInv'
<1>1. UNCHANGED <<prevHash, dead>>
  BY Zenon DEF StateEstablish, lclVars
<1>2. PICK stale, ourStale, x, u :
        /\ stale \in SUBSET Present
        /\ u = UpdateOurPositions(Fresh(stale), Revote(stale), x, ourStale)
        /\ CheckConsensus(u)
  BY EstablishStep
<1> DEFINE pos == Fresh(stale)
           voted == Revote(stale)
<1>3. /\ u.pos = pos
      /\ u.disputes = voted \/ \E set : u.disputes = AdjustCount(voted, set, Holders(pos, set))
  BY ZenonT(60), <1>2 DEF UpdateOurPositions
<1>4. /\ positions' = pos
      /\ \E fresh : disputes' = CreateDisputes(u.disputes, u.acq, pos, u.our.set, fresh)
  BY ZenonT(60), <1>2, <1>3 DEF CheckConsensus
<1>5. /\ pos = [p \in Peers |-> pos[p]]
      /\ \A p \in Peers : pos[p] = IF p \in stale THEN NoPosition ELSE positions[p]
  BY DEF Fresh
<1>6. /\ voted = [t \in AllTx |-> voted[t]]
      /\ \A t \in AllTx : disputes[t] = NoDispute => voted[t] = NoDispute
      /\ \A t \in AllTx : disputes[t] # NoDispute =>
           voted[t] = UpdateVote(UnVotes(disputes[t], stale), ClosePercent, proposing)
  BY DEF Revote, PeerInv, VotesOK
<1>7. stale \in SUBSET Peers
  BY <1>2 DEF Present
<1> HIDE DEF pos, voted
<1>8. PresentIn(positions) \ stale \subseteq PresentIn(pos)
  BY <1>5 DEF PresentIn
<1>9. ASSUME NEW t \in AllTx, disputes[t] # NoDispute
      PROVE  /\ Counted(voted[t], Peers)
             /\ voted[t].yes = UnVotes(disputes[t], stale).yes
             /\ voted[t].no = UnVotes(disputes[t], stale).no
  BY <1>7, <1>9, RevoteCounted DEF voted
<1>10. VotesOK(disputes, positions)
  BY DEF PeerInv
<1>11. VotesOK(voted, pos)
  BY ZenonT(60), <1>6, <1>7, <1>8, <1>9, <1>10, UnVotesOK
<1>12. VotesOK(u.disputes, pos)
  <2>1. \A set : Holders(pos, set) \subseteq PresentIn(pos)
    BY DEF Holders, PresentIn
  <2> QED BY <1>3, <1>11, <2>1, AdjustCountOK
<1>13. VotesOK(disputes', positions')
  BY <1>4, <1>12, CreateDisputesOK
<1>14. PositionsMatchLedger'
  BY <1>1, <1>4, <1>5 DEF PeerInv, PositionsMatchLedger, Present, HasPosition
<1> QED BY <1>1, <1>4, <1>5, <1>13, <1>14 DEF PeerInv

\* The constructor establishes the peers' side.
LEMMA PeerInit == Init => PeerInv
  BY DEF Init, PeerInv, VotesOK, AllTx, PositionsMatchLedger, Present, HasPosition

\* Every step keeps the peers' side.
LEMMA PeerNext == PeerInv /\ [Next]_vars => PeerInv'
<1> SUFFICES ASSUME PeerInv, [Next]_vars PROVE PeerInv'
  OBVIOUS
<1>1. CASE TimerCheckLCL
  <2>1. PICK l \in NetLedgers :
          \/ ChangeLCL(l)
          \/ UNCHANGED <<lclVars, peerVars, setVars>>
    BY <1>1 DEF TimerCheckLCL
  <2>2. CASE ChangeLCL(l)
    <3>1. /\ prevHash' = l /\ positions' = [p \in Peers |-> NoPosition]
          /\ disputes' = [t \in AllTx |-> NoDispute]
      BY <2>2 DEF ChangeLCL, ClearRound, PeerInv, VotesOK
    <3>2. l \in Ledgers
      BY DEF NetLedgers, PeerInv
    <3> QED BY <3>1, <3>2 DEF PeerInv, VotesOK, PositionsMatchLedger, Present, HasPosition
  <2>3. CASE UNCHANGED <<lclVars, peerVars, setVars>>
    BY <2>3, PeerFrame DEF lclVars, peerVars, setVars
  <2> QED BY <2>1, <2>2, <2>3
<1>2. CASE PlaybackEnds \/ SwitchLedger \/ StateInitialPosition \/ StateBuiltLedger
  BY ZenonT(60), <1>2, PeerFrame
     DEF PlaybackEnds, SwitchLedger, StateInitialPosition, StateBuiltLedger,
                         lclVars, peerVars, setVars
<1>3. CASE \E p \in Peers : PlaybackStep(p)
  <2>1. PICK p \in Peers : PlaybackStep(p)
    BY <1>3
  <2>2. /\ UNCHANGED prevHash
        /\ \/ Head(replay[p]).prev = prevHash /\ PeerPosition(p, Head(replay[p]))
           \/ UNCHANGED <<peerVars, setVars>>
    BY ZenonT(60), <2>1 DEF PlaybackStep, lclVars
  <2> QED BY <2>2, PeerPositionOK, PeerFrame DEF peerVars, setVars
<1>4. CASE StatePreClose
  <2>1. UNCHANGED <<prevHash, positions, dead>>
    BY <1>4 DEF StatePreClose, lclVars, peerVars
  <2>2. \/ UNCHANGED disputes
        \/ \E acq, ours, S : disputes' = CreateDisputes(disputes, acq, positions, ours, S)
    <3>1. CASE UNCHANGED setVars
      BY <3>1 DEF setVars
    <3>2. CASE \E txs, ct : TakeInitialPosition(txs, ct)
      <4>1. PICK txs, ct : TakeInitialPosition(txs, ct)
        BY <3>2
      <4> QED BY Zenon, <4>1 DEF TakeInitialPosition
    <3> QED BY <1>4, <3>1, <3>2 DEF StatePreClose
  <2>3. VotesOK(disputes', positions)
    BY <2>2, CreateDisputesOK DEF PeerInv
  <2> QED BY <2>1, <2>3 DEF PeerInv, PositionsMatchLedger, Present, HasPosition
<1>5. CASE StateEstablish
  BY <1>5, PeerEstablish
<1>6. CASE \E p \in Peers, n \in Proposals : ReceiveProposal(p, n)
  <2>1. PICK p \in Peers, n \in Proposals : ReceiveProposal(p, n)
    BY <1>6
  <2>2. /\ UNCHANGED prevHash
        /\ \/ n.prev = prevHash /\ PeerPosition(p, n)
           \/ UNCHANGED <<peerVars, setVars>>
    BY <2>1 DEF ReceiveProposal, lclVars
  <2> QED BY <2>2, PeerPositionOK, PeerFrame DEF peerVars, setVars
<1>7. CASE \E s \in Sets : CompleteAcquire(s)
  <2>1. PICK s \in Sets : CompleteAcquire(s)
    BY <1>7
  <2>2. UNCHANGED <<prevHash, positions, dead>>
    BY <2>1 DEF CompleteAcquire, lclVars, peerVars
  <2>3. MapComplete(s, positions) \/ UNCHANGED disputes
    BY <2>1 DEF CompleteAcquire, AcquireFailed
  <2>4. VotesOK(disputes', positions)
    BY <2>3, MapCompleteOK DEF PeerInv
  <2> QED BY <2>2, <2>4 DEF PeerInv, PositionsMatchLedger, Present, HasPosition
<1>8. CASE \/ \E s \in Sets, r \in {"ok", "failed"} : AcquireDone(s, r)
           \/ \E ok \in BOOLEAN : Accept(ok)
  BY <1>8, PeerFrame DEF AcquireDone, Accept, lclVars, peerVars, setVars
<1>9. CASE \/ \E t \in Tx : OpenLedgerTx(t)
           \/ LedgerArrives
           \/ \E v \in Validators, l \in Ledgers : RecvValidation(v, l)
           \/ \E i \in Instants : Tick(i)
  BY ZenonT(60), <1>9, PeerFrame DEF OpenLedgerTx, LedgerArrives, RecvValidation, Tick, roundVars,
                         lclVars, peerVars, setVars
<1>10. CASE UNCHANGED vars
  BY <1>10, PeerFrame DEF vars, lclVars, peerVars, setVars
<1> QED BY <1>1, <1>2, <1>3, <1>4, <1>5, <1>6, <1>7, <1>8, <1>9, <1>10 DEF Next, Timer

\* For any peers, transactions, ledgers and order of events, the votes counted
\* on a dispute are those of peers that take part, each counted once.
THEOREM VotesAreAlwaysPeers == Spec => []VotesArePeers
<1>1. PeerInv => VotesArePeers
  <2> SUFFICES ASSUME PeerInv, NEW t \in Disputed(disputes)
               PROVE  /\ Counted(disputes[t], Peers)
                      /\ disputes[t].yes \subseteq Present /\ disputes[t].no \subseteq Present
    BY DEF VotesArePeers, Counted
  <2> QED BY DEF PeerInv, VotesOK, Disputed, Present, HasPosition, PresentIn
<1> QED BY <1>1, PeerInit, PeerNext, PTL DEF Spec

\* Also across changes of the ledger and the replay of stored proposals, the
\* positions we keep are for the ledger we want to build on.
THEOREM PositionsAlwaysMatchLedger == Spec => []PositionsMatchLedger
<1>1. PeerInv => PositionsMatchLedger
  BY DEF PeerInv
<1> QED BY <1>1, PeerInit, PeerNext, PTL DEF Spec
=============================================================================

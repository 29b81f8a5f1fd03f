---- MODULE LedgerMasterProofs ----
(***************************************************************************)
(* Proofs about the ledger master, for any tree of ledgers, any            *)
(* validators and validations, any quorum and any gap: ledgers are         *)
(* published in order, what is published or held as validated history      *)
(* goes back to a quorum of validations, and the complete ledgers are a    *)
(* chain.                                                                  *)
(***************************************************************************)
EXTENDS LedgerMaster, FiniteSetTheorems, TLAPS

----
(* Smallest and largest elements. *)

\* A set of naturals that is not empty has a smallest element, and Min names it.
LEMMA MinOf ==
  ASSUME NEW S \in SUBSET Nat, S # {}
  PROVE Min(S) \in S /\ \A x \in S : Min(S) <= x
<1> DEFINE R == OpToRel(<, Nat)
<1>1. IsWellFoundedOn(R, Nat)
  BY Zenon, NatLessThanWellFounded
<1>2. PICK x \in S : \A y \in S : ~(<<y, x>> \in R)
  <2> HIDE DEF R
  <2> QED BY Zenon, <1>1, WFMin
<1>3. \A y \in S : x <= y
  <2> TAKE y \in S
  <2>1. y \in Nat /\ x \in Nat /\ <<y, x>> \in Nat \X Nat
    OBVIOUS
  <2>2. ~(y < x)
    BY <2>1, <1>2 DEF OpToRel
  <2> QED BY <2>1, <2>2
<1> QED BY Zenon, <1>3 DEF Min

\* A bounded set of naturals that is not empty has a largest element: Max names it.
LEMMA MaxOf ==
  ASSUME NEW N \in Nat, NEW S \in SUBSET (0 .. N), S # {}
  PROVE Max(S) \in S /\ \A x \in S : x <= Max(S)
<1> DEFINE T == {N - x : x \in S}
<1>1. T \in SUBSET Nat /\ T # {}
  OBVIOUS
<1>2. Min(T) \in T /\ \A t \in T : Min(T) <= t
  BY Zenon, <1>1, MinOf
<1>3. PICK m \in S : Min(T) = N - m
  BY Zenon, <1>2
<1>4. ASSUME NEW x \in S PROVE x <= m
  <2>1. N - x \in T
    OBVIOUS
  <2>2. N - m <= N - x
    BY Zenon, <2>1, <1>2, <1>3
  <2>3. x \in 0 .. N /\ m \in 0 .. N
    OBVIOUS
  <2> HIDE DEF T
  <2> QED BY <2>2, <2>3
<1> HIDE DEF T
<1> QED BY Zenon, <1>4 DEF Max

----
(* The tree of ledgers. *)

\* Two ledgers on one branch have the same ancestors: what b names with the
\* sequence of l being l, it names l's ancestors below.
LEMMA SameAncestors ==
  ASSUME NEW l \in Ledgers, NEW b \in Ledgers, SeqNo[l] <= SeqNo[b], HashAt[b][SeqNo[l]] = l,
         NEW s \in 1 .. SeqNo[l]
  PROVE HashAt[b][s] = HashAt[l][s]
<1> USE LedgersAssumption
<1>1. SeqNo[l] \in Nat /\ SeqNo[b] \in Nat
  OBVIOUS
<1> DEFINE D == {t \in 1 .. SeqNo[l] : HashAt[b][t] # HashAt[l][t]}
<1>2. SUFFICES ASSUME D # {} PROVE FALSE
  OBVIOUS
<1>3. D \in SUBSET (0 .. SeqNo[l])
  BY <1>1
<1>4. Max(D) \in D /\ \A t \in D : t <= Max(D)
  <2> HIDE DEF D
  <2> QED BY Zenon, <1>1, <1>2, <1>3, MaxOf
<1> DEFINE m == Max(D)
<1>5. m \in 1 .. SeqNo[l] /\ HashAt[b][m] # HashAt[l][m]
  BY <1>4
<1>6. m # SeqNo[l]
  BY Zenon, <1>5
<1>7. m + 1 \in 2 .. SeqNo[l] /\ m + 1 \in 2 .. SeqNo[b] /\ m + 1 \notin D
  <2> HIDE DEF D
  <2> QED BY <1>1, <1>4, <1>5, <1>6
<1>8. HashAt[b][m + 1] = HashAt[l][m + 1]
  BY <1>1, <1>7
<1>9. /\ Parent[HashAt[b][m + 1]] = HashAt[b][(m + 1) - 1]
      /\ Parent[HashAt[l][m + 1]] = HashAt[l][(m + 1) - 1]
  BY Zenon, <1>7
<1>10. (m + 1) - 1 = m
  BY <1>1, <1>5
<1> QED BY Zenon, <1>5, <1>8, <1>9, <1>10

\* A ledger named by a rooted ledger as its ancestor is rooted as well.
LEMMA AncestorsRooted ==
  ASSUME NEW l \in Ledgers, Rooted(l), NEW s \in 1 .. SeqNo[l]
  PROVE Rooted(HashAt[l][s])
<1>1. PICK b \in Backed \cup {Start} : SeqNo[l] <= SeqNo[b] /\ HashAt[b][SeqNo[l]] = l
  BY DEF Rooted
<1>2. b \in Ledgers
  BY LedgersAssumption DEF Backed
<1>3. HashAt[b][s] = HashAt[l][s]
  BY <1>1, <1>2, SameAncestors
<1>4. SeqNo[HashAt[l][s]] = s /\ s <= SeqNo[b]
  BY <1>1, <1>2, LedgersAssumption
<1> QED BY <1>1, <1>3, <1>4 DEF Rooted

\* So is the parent of a rooted ledger.
LEMMA ParentRooted ==
  ASSUME NEW l \in Ledgers, Rooted(l), Parent[l] \in Ledgers
  PROVE Rooted(Parent[l])
<1>1. SeqNo[l] \in Nat \ {0} /\ SeqNo[l] # 1
  BY LedgersAssumption
<1>2. SeqNo[l] \in 2 .. SeqNo[l] /\ SeqNo[l] - 1 \in 1 .. SeqNo[l]
  BY <1>1
<1>3. Parent[l] = HashAt[l][SeqNo[l] - 1]
  BY <1>2, LedgersAssumption
<1> QED BY <1>2, <1>3, AncestorsRooted

\* A ledger with a quorum, and the ledger we started from, are rooted.
LEMMA RootsRooted ==
  ASSUME NEW l \in Backed \cup {Start}
  PROVE Rooted(l)
<1>1. l \in Ledgers /\ SeqNo[l] \in Nat /\ HashAt[l][SeqNo[l]] = l
  BY LedgersAssumption DEF Backed
<1> QED BY <1>1 DEF Rooted

\* Validations are only added, so a rooted ledger stays rooted.
LEMMA RootedStays ==
  ASSUME mValidations \subseteq mValidations', IsFiniteSet(mValidations')
  PROVE \A l : Rooted(l) => Rooted(l)'
<1>1. ASSUME NEW l \in Backed PROVE l \in Backed'
  <2> DEFINE V == {v \in mValidations : v.ledger = l}
             W == {v \in mValidations' : v.ledger = l}
  <2>1. IsFiniteSet(W)
    BY FS_Subset
  <2>2. V \in SUBSET W
    OBVIOUS
  <2>3. IsFiniteSet(V) /\ Cardinality(V) <= Cardinality(W)
    <3> HIDE DEF V, W
    <3> QED BY <2>1, <2>2, FS_Subset
  <2>4. Cardinality(V) \in Nat /\ Cardinality(W) \in Nat
    BY <2>1, <2>3, FS_CardinalityType
  <2>5. Cardinality(V) >= MinValidations /\ l \in Ledgers
    BY DEF Backed, TrustedCount
  <2>6. Cardinality(W) >= MinValidations
    <3> HIDE DEF V, W
    <3> QED BY <2>3, <2>4, <2>5, LedgersAssumption
  <2> QED BY <2>5, <2>6 DEF Backed, TrustedCount
<1> QED BY <1>1 DEF Rooted

\* A ledger that checkAccept accepts has a quorum of validations.
LEMMA AcceptableIsBacked ==
  ASSUME IsFiniteSet(mValidations), NEW l \in Ledgers, Acceptable(l)
  PROVE l \in Backed
<1>1. \A k : TrustedCount(k) \in Nat
  BY FS_Subset, FS_CardinalityType DEF TrustedCount
<1> DEFINE last == IF mLastValidateHash = None THEN 0 ELSE TrustedCount(mLastValidateHash)
           share == (last * 150) \div 256
<1>2. last \in Nat
  BY <1>1
<1>3. share \in Nat
  <2> HIDE DEF last
  <2> QED BY <1>2
<1>4. Max({MinValidations, share}) \in Nat /\ Max({MinValidations, share}) >= MinValidations
  <2> HIDE DEF share
  <2>1. \E x \in {MinValidations, share} : \A y \in {MinValidations, share} : x >= y
    BY <1>3, LedgersAssumption
  <2> QED BY Zenon, <1>3, <2>1, LedgersAssumption DEF Max
<1>5. Needed = Max({MinValidations, share})
  BY DEF Needed
<1>6. TrustedCount(l) >= Needed
  BY DEF Acceptable, Enough
<1>7. TrustedCount(l) >= MinValidations
  <2> HIDE DEF share
  <2> QED BY <1>1, <1>4, <1>5, <1>6, LedgersAssumption
<1> QED BY <1>7 DEF Backed

----
(* The inductive invariant. *)

Places == {"none", "queued", "find", "publish", "check", "publishing", "history", "fill",
           "checkfill", "end"}

\* There is a published ledger once there is a valid one, and no thread before;
\* what is complete is in the history, under its own sequence.
TypeInv ==
  /\ mValidLedger \in Ledgers \cup {None} /\ mPubLedger \in Ledgers \cup {None}
  /\ stream \in Ledgers \cup {None} /\ have \subseteq Ledgers
  /\ mValidLedger = None <=> mPubLedger = None
  /\ mPubLedger = None => advance = "none" /\ stream = None
  /\ advance \in Places /\ pubLedgers \in Seq(Ledgers)
  /\ built.at # "idle" => built.ledger \in Ledgers
  /\ bySeq \in [Seqs -> Ledgers \cup {None}]
  /\ \A s \in Seqs : bySeq[s] # None => SeqNo[bySeq[s]] = s
  /\ mCompleteLedgers \subseteq {s \in Seqs : bySeq[s] # None}

\* The one ledger to publish is far ahead of the stream, and mPubLedger already.
Jump ==
  /\ pubLedgers = <<mPubLedger>>
  /\ stream # None => SeqNo[stream] + MaxLedgerGap < PubSeq

\* The ledgers to publish follow mPubLedger one by one.
InLine == \A i \in 1 .. Len(pubLedgers) : SeqNo[pubLedgers[i]] = PubSeq + i

\* The stream is at mPubLedger, or far behind it after a jump, and what the thread
\* is to publish continues it.
OrderInv ==
  /\ stream # None => SeqNo[stream] = PubSeq \/ SeqNo[stream] + MaxLedgerGap < PubSeq
  /\ advance \in {"publish", "check", "publishing"} => pubLedgers # <<>> /\ (Jump \/ InLine)
  /\ advance = "find" => Len(pubLedgers) = 1 /\ SeqNo[pubLedgers[1]] > PubSeq
  /\ advance \in {"fill", "checkfill"} => Len(pubLedgers) = 1

\* Every ledger held as valid or published, or on the way to it, is rooted.
RootInv ==
  /\ IsFiniteSet(mValidations)
  /\ mValidLedger # None => Rooted(mValidLedger)
  /\ \A i \in 1 .. Len(pubLedgers) : Rooted(pubLedgers[i])
  /\ \A l \in published : Rooted(l)
  /\ \A s \in Seqs : bySeq[s] # None => Rooted(bySeq[s])

Inv == TypeInv /\ OrderInv /\ RootInv

\* As validations only grow, it is enough to look at the roots before the step.
LEMMA RootsKept ==
  ASSUME IsFiniteSet(mValidations'), mValidations \subseteq mValidations',
         mValidLedger' # None => Rooted(mValidLedger'),
         \A i \in 1 .. Len(pubLedgers') : Rooted(pubLedgers'[i]),
         \A l \in published' : Rooted(l),
         \A s \in Seqs : bySeq'[s] # None => Rooted(bySeq'[s])
  PROVE RootInv'
<1>1. \A l : Rooted(l) => Rooted(l)'
  BY RootedStays
<1> QED BY <1>1 DEF RootInv

\* The history after a ledger has been put under its sequence, or has not.
LEMMA PutBySeq ==
  ASSUME TypeInv, NEW l \in Ledgers, bySeq' \in {bySeq, [bySeq EXCEPT ![SeqNo[l]] = l]}
  PROVE /\ bySeq' \in [Seqs -> Ledgers \cup {None}]
        /\ \A s \in Seqs : bySeq'[s] = bySeq[s] \/ (s = SeqNo[l] /\ bySeq'[s] = l)
        /\ \A s \in Seqs : bySeq'[s] # None => SeqNo[bySeq'[s]] = s
        /\ \A s \in Seqs : bySeq[s] # None => bySeq'[s] # None
<1>1. SeqNo[l] \in Seqs /\ l # None
  BY LedgersAssumption DEF Seqs
<1>2. CASE bySeq' = bySeq
  BY <1>2 DEF TypeInv
<1>3. CASE bySeq' = [bySeq EXCEPT ![SeqNo[l]] = l]
  <2>1. bySeq \in [Seqs -> Ledgers \cup {None}]
    BY DEF TypeInv
  <2>2. /\ bySeq' \in [Seqs -> Ledgers \cup {None}]
        /\ \A s \in Seqs : bySeq'[s] = IF s = SeqNo[l] THEN l ELSE bySeq[s]
    BY <1>1, <1>3, <2>1
  <2>3. \A s \in Seqs : bySeq[s] # None => SeqNo[bySeq[s]] = s
    BY DEF TypeInv
  <2> QED BY <1>1, <2>2, <2>3
<1> QED BY <1>2, <1>3

\* It holds at the start.
LEMMA InitInv == Init => Inv
<1> SUFFICES ASSUME Init PROVE Inv
  OBVIOUS
<1>1. Start \in Ledgers /\ SeqNo[Start] \in Seqs /\ Start # None
  BY LedgersAssumption DEF Seqs
<1>2. TypeInv
  <2>1. mCompleteLedgers \subseteq {SeqNo[Start]} /\ mValidLedger \in {Start, None}
    BY DEF Init
  <2>2. bySeq = [s \in Seqs |-> IF s \in mCompleteLedgers THEN Start ELSE None]
    BY DEF Init
  <2>3. \A s \in Seqs : bySeq[s] # None => SeqNo[bySeq[s]] = s
    BY <2>1, <2>2
  <2>4. mCompleteLedgers \subseteq {s \in Seqs : bySeq[s] # None}
    BY <1>1, <2>1, <2>2
  <2>5. bySeq \in [Seqs -> Ledgers \cup {None}]
    BY <1>1, <2>2
  <2> QED BY <1>1, <2>1, <2>3, <2>4, <2>5 DEF Init, TypeInv, Places
<1>3. OrderInv
  BY DEF Init, OrderInv
<1>4. RootInv
  <2>1. Rooted(Start)
    BY RootsRooted
  <2>2. \A s \in Seqs : bySeq[s] # None => bySeq[s] = Start
    BY DEF Init
  <2>3. mValidLedger # None => mValidLedger = Start
    BY DEF Init
  <2>4. IsFiniteSet(mValidations) /\ Len(pubLedgers) = 0 /\ published = {}
    BY FS_EmptySet DEF Init, SetsInit
  <2> QED BY <2>1, <2>2, <2>3, <2>4 DEF RootInv
<1> QED BY <1>2, <1>3, <1>4 DEF Inv

----
(* Steps that accept a ledger. *)

\* What checkAccept, and the jobs that call it, do to the state of the publisher.
Accepts ==
  /\ \/ \E l \in Ledgers : Acceptable(l) /\ Accept(l)
     \/ TryAdvance(mValidLedger) /\ UNCHANGED acceptVars
     \/ UNCHANGED <<acceptVars, advanceVars>>
  /\ UNCHANGED <<mValidations, pubVars, mCompleteLedgers, have, faults>>
  /\ built'.at # "idle" => built'.ledger = built.ledger /\ built.at # "idle"

\* Each of them does no more than that.
LEMMA AcceptingSteps ==
  ASSUME \/ \E l \in Ledgers : CheckAccept(l) \/ SwitchLedgers(l) \/ LADispatch(l)
         \/ ConsensusBuilt \/ \E S \in SUBSET Nodes : CheckSavedUp(S),
         TypeInv
  PROVE Accepts
<1>1. ASSUME NEW l \in Ledgers, CheckHash(l)
      PROVE /\ \/ \E k \in Ledgers : Acceptable(k) /\ Accept(k)
               \/ UNCHANGED <<acceptVars, advanceVars>>
            /\ UNCHANGED have
  BY <1>1 DEF CheckHash, CheckLedger, FindCreate, acquireVars
<1>2. ASSUME NEW l \in Ledgers, CheckAccept(l) PROVE Accepts
  BY <1>1, <1>2 DEF CheckAccept, Accepts, setVars
<1>3. ASSUME NEW l \in Ledgers, SwitchLedgers(l) PROVE Accepts
  BY <1>3 DEF SwitchLedgers, Accepts, setVars, acquireVars
<1>4. ASSUME NEW l \in Ledgers, LADispatch(l) PROVE Accepts
  BY <1>4 DEF LADispatch, Accepts, setVars, acquireVars
<1>5. CASE ConsensusBuilt
  <2>1. built.ledger \in Ledgers
    BY <1>5 DEF ConsensusBuilt, TypeInv
  <2>2. built'.at # "idle" => built'.ledger = built.ledger /\ built.at # "idle"
    BY <1>5 DEF ConsensusBuilt
  <2> QED BY <1>5, <2>1, <2>2 DEF ConsensusBuilt, CheckLedger, Accepts, setVars, acquireVars
<1>6. ASSUME NEW S \in SUBSET Nodes, CheckSavedUp(S) PROVE Accepts
  <2>1. \/ UNCHANGED <<acceptVars, advanceVars, acquireVars>>
        \/ \E l \in Ledgers : CheckHash(l)
    BY Zenon, <1>6 DEF CheckSavedUp, SavedUp
  <2>2. built'.at = "idle"
    BY <1>6 DEF CheckSavedUp
  <2> QED BY <1>1, <1>6, <2>1, <2>2 DEF CheckSavedUp, Accepts, acquireVars
<1> QED BY <1>2, <1>3, <1>4, <1>5, <1>6

\* Accepting a ledger keeps the invariant: before the first one there is neither a
\* thread nor a stream, and afterwards mPubLedger stays.
LEMMA AcceptsKeepsInv == Inv /\ Accepts => Inv'
<1> SUFFICES ASSUME Inv, Accepts PROVE Inv'
  OBVIOUS
<1> USE DEF Inv
<1>1. \A l : Rooted(l) => Rooted(l)'
  BY RootedStays DEF Accepts, RootInv
<1>2. ASSUME NEW l \in Ledgers, Acceptable(l), Accept(l) PROVE Inv'
  <2>1. l \in Backed /\ Rooted(l)
    BY <1>2, AcceptableIsBacked, RootsRooted DEF RootInv
  <2>2. l # None /\ SeqNo[l] \in Seqs
    BY LedgersAssumption DEF Seqs
  <2>3. advance' = advance \/ advance' = "queued"
    BY <1>2 DEF Accept, TryAdvance
  <2>4. UNCHANGED <<mValidations, pubLedgers, stream, published, mCompleteLedgers, have>>
    BY DEF Accepts, pubVars
  <2>5. CASE mPubLedger = None
    <3>1. mPubLedger' = l /\ mValidLedger' = l /\ bySeq' = [bySeq EXCEPT ![SeqNo[l]] = l]
      BY <1>2, <2>5 DEF Accept
    <3>2. stream = None /\ advance' \in {"none", "queued"}
      BY <2>3, <2>5 DEF TypeInv
    <3>3. /\ bySeq' \in [Seqs -> Ledgers \cup {None}]
          /\ \A s \in Seqs : bySeq'[s] = IF s = SeqNo[l] THEN l ELSE bySeq[s]
      BY <2>2, <3>1 DEF TypeInv
    <3>4. TypeInv'
      BY <2>2, <2>4, <3>1, <3>2, <3>3 DEF TypeInv, Places, Accepts
    <3>5. OrderInv'
      BY <2>4, <3>2 DEF OrderInv
    <3>6. RootInv'
      BY <1>1, <2>1, <2>4, <3>1, <3>3 DEF RootInv
    <3> QED BY <3>4, <3>5, <3>6
  <2>6. CASE mPubLedger # None
    <3>1. mPubLedger' = mPubLedger /\ mValidLedger' = l /\ bySeq' = bySeq
      BY <1>2, <2>6 DEF Accept
    <3>2. TypeInv'
      BY <2>2, <2>3, <2>4, <2>6, <3>1 DEF TypeInv, Places, Accepts
    <3>3. OrderInv'
      BY <2>3, <2>4, <3>1 DEF OrderInv, Jump, InLine, PubSeq, SeqOrZero
    <3>4. RootInv'
      BY <1>1, <2>1, <2>4, <3>1 DEF RootInv
    <3> QED BY <3>2, <3>3, <3>4
  <2> QED BY <2>5, <2>6
<1>3. CASE UNCHANGED acceptVars /\ (TryAdvance(mValidLedger) \/ UNCHANGED advanceVars)
  <2>1. advance' = advance \/ (advance' = "queued" /\ mValidLedger # None)
    BY <1>3 DEF TryAdvance, advanceVars
  <2>2. UNCHANGED <<mValidations, pubLedgers, stream, published, mCompleteLedgers, have,
                    mValidLedger, mPubLedger, bySeq>>
    BY <1>3 DEF Accepts, pubVars, acceptVars
  <2>3. TypeInv'
    BY <2>1, <2>2 DEF TypeInv, Places, Accepts
  <2>4. OrderInv'
    BY <2>1, <2>2 DEF OrderInv, Jump, InLine, PubSeq, SeqOrZero
  <2>5. RootInv'
    BY <1>1, <2>2 DEF RootInv
  <2> QED BY <2>3, <2>4, <2>5
<1> QED BY <1>2, <1>3 DEF Accepts

----
(* Steps of the other parties that leave the publisher alone. *)

\* A validation arrives, a ledger is built or acquired: only what can be found by
\* hash and the validations grow.
LEMMA OthersKeepInv ==
  ASSUME Inv,
         \/ \E v \in AllValidations : AddValidation(v)
         \/ \E l \in Ledgers : StartBuilding(l) \/ AcquireDone(l) \/ AcquireFails(l)
         \/ \E fails \in BOOLEAN : StoreBuilt(fails)
         \/ UNCHANGED vars
  PROVE Inv'
<1> USE DEF Inv
<1>1. /\ UNCHANGED <<acceptVars, advanceVars, pubVars, mCompleteLedgers>>
      /\ have' \subseteq Ledgers
      /\ built'.at # "idle" => built'.ledger \in Ledgers
      /\ \/ UNCHANGED mValidations
         \/ \E v \in AllValidations : mValidations' = mValidations \cup {v}
  <2>1. ASSUME NEW v \in AllValidations, AddValidation(v) PROVE <1>1!:
    BY <2>1 DEF AddValidation, Record, TypeInv, acquireVars
  <2>2. ASSUME NEW l \in Ledgers, StartBuilding(l) PROVE <1>1!:
    BY <2>2 DEF StartBuilding, TypeInv, acquireVars, setVars
  <2>3. ASSUME NEW l \in Ledgers, AcquireDone(l) \/ AcquireFails(l) PROVE <1>1!:
    BY <2>3 DEF AcquireDone, AcquireFails, TypeInv, setVars
  <2>4. ASSUME NEW fails \in BOOLEAN, StoreBuilt(fails) PROVE <1>1!:
    BY <2>4 DEF StoreBuilt, TypeInv, setVars
  <2>5. CASE UNCHANGED vars
    BY Zenon, <2>5 DEF vars, TypeInv, acquireVars, setVars
  <2> QED BY <2>1, <2>2, <2>3, <2>4, <2>5
<1>2. IsFiniteSet(mValidations') /\ mValidations \subseteq mValidations'
  BY <1>1, FS_AddElement DEF RootInv
<1>3. \A l : Rooted(l) => Rooted(l)'
  BY <1>2, RootedStays
<1>4. UNCHANGED <<mValidLedger, mPubLedger, bySeq, advance, pubLedgers, stream, published,
                  mCompleteLedgers>>
  BY <1>1 DEF acceptVars, advanceVars, pubVars
<1>5. TypeInv'
  BY <1>1, <1>4 DEF TypeInv
<1>6. OrderInv'
  BY Zenon, <1>4 DEF OrderInv, Jump, InLine, PubSeq, SeqOrZero
<1>7. RootInv'
  BY <1>2, <1>3, <1>4 DEF RootInv
<1> QED BY <1>5, <1>6, <1>7

----
(* Steps of the advance thread. *)

\* The top of the loop: a jump leaves the stream more than the gap behind.
LEMMA LoopKeepsInv ==
  ASSUME Inv, StartAdvance \/ EndLoop
  PROVE Inv'
<1> USE DEF Inv
<1>1. UNCHANGED <<mValidations, mValidLedger, bySeq, have, built, mCompleteLedgers, stream,
                  published>>
  BY DEF StartAdvance, EndLoop, restVars, acquireVars, setVars
<1>2. mPubLedger \in Ledgers /\ mValidLedger \in Ledgers
  BY DEF StartAdvance, EndLoop, TypeInv
<1>3. /\ PubSeq \in Nat /\ PubSeq = SeqNo[mPubLedger]
      /\ ValidSeq \in Nat /\ ValidSeq = SeqNo[mValidLedger]
  BY <1>2, LedgersAssumption DEF PubSeq, ValidSeq, SeqOrZero
<1>4. \A l : Rooted(l) => Rooted(l)'
  BY <1>1, RootedStays DEF RootInv
<1>5. Loop \/ (ThreadEnds /\ UNCHANGED <<mPubLedger, pubLedgers>>)
  BY DEF StartAdvance, EndLoop
<1>6. CASE /\ mPubLedger' = mValidLedger /\ pubLedgers' = <<mValidLedger>>
           /\ advance' = "publish" /\ TooFar
  <2>1. PubSeq' = ValidSeq
    BY <1>2, <1>3, <1>6, LedgersAssumption DEF PubSeq, SeqOrZero
  <2>2. stream # None => SeqNo[stream] \in Nat /\ SeqNo[stream] + MaxLedgerGap < ValidSeq
    <3>1. stream # None => stream \in Ledgers /\ SeqNo[stream] \in Nat
      BY LedgersAssumption DEF TypeInv
    <3>2. stream # None => SeqNo[stream] = PubSeq \/ SeqNo[stream] + MaxLedgerGap < PubSeq
      BY DEF OrderInv
    <3>3. ValidSeq > PubSeq + MaxLedgerGap /\ MaxLedgerGap \in Nat
      BY <1>6, LedgersAssumption DEF TooFar
    <3> QED BY <1>3, <3>1, <3>2, <3>3
  <2>3. TypeInv'
    BY <1>1, <1>2, <1>6, LedgersAssumption DEF TypeInv, Places
  <2>4. Jump' /\ pubLedgers' # <<>>
    BY <1>1, <1>6, <2>1, <2>2 DEF Jump
  <2>5. OrderInv'
    BY <1>1, <1>6, <2>1, <2>2, <2>4 DEF OrderInv
  <2>6. RootInv'
    BY <1>1, <1>2, <1>4, <1>6, LedgersAssumption DEF RootInv
  <2> QED BY <2>3, <2>5, <2>6
<1>7. CASE /\ mPubLedger' = mPubLedger /\ pubLedgers' = <<mValidLedger>>
           /\ advance' = "find" /\ ValidSeq > PubSeq
  <2>1. PubSeq' = PubSeq
    BY <1>7 DEF PubSeq, SeqOrZero
  <2>2. TypeInv'
    BY <1>1, <1>2, <1>7, LedgersAssumption DEF TypeInv, Places
  <2>3. OrderInv'
    BY <1>1, <1>3, <1>7, <2>1 DEF OrderInv
  <2>4. RootInv'
    BY <1>1, <1>2, <1>4, <1>7, LedgersAssumption DEF RootInv
  <2> QED BY <2>2, <2>3, <2>4
<1>8. CASE UNCHANGED <<mPubLedger, pubLedgers>> /\ advance' \in {"history", "none"}
  <2>1. PubSeq' = PubSeq
    BY <1>8 DEF PubSeq, SeqOrZero
  <2>2. TypeInv'
    BY <1>1, <1>2, <1>8, LedgersAssumption DEF TypeInv, Places
  <2>3. OrderInv'
    BY <1>1, <1>8, <2>1 DEF OrderInv
  <2>4. RootInv'
    BY <1>1, <1>4, <1>8 DEF RootInv
  <2> QED BY <2>2, <2>3, <2>4
<1> QED BY <1>5, <1>6, <1>7, <1>8 DEF Loop, ThreadEnds

\* findNewLedgersToPublish returns the ancestors of the valid ledger that follow
\* mPubLedger, up to the first one that is missing.
LEMMA FindKeepsInv ==
  ASSUME Inv, FindNewLedgersToPublish
  PROVE Inv' /\ InLine'
<1> USE DEF Inv
<1>1. UNCHANGED <<mValidations, mValidLedger, mPubLedger, bySeq, have, built, mCompleteLedgers,
                  stream, published>>
  BY DEF FindNewLedgersToPublish, restVars, setVars
<1>2. mPubLedger \in Ledgers /\ PubSeq \in Nat /\ PubSeq' = PubSeq
  <2>1. mPubLedger \in Ledgers
    BY DEF FindNewLedgersToPublish, TypeInv
  <2>2. PubSeq \in Nat
    BY <2>1, LedgersAssumption DEF PubSeq, SeqOrZero
  <2> QED BY Zenon, <1>1, <2>1, <2>2 DEF PubSeq, SeqOrZero
<1> DEFINE val == Head(pubLedgers)
           wanted == PubSeq + 1 .. SeqNo[val]
           missing == {s \in wanted : HashAt[val][s] \notin have \cup {val}}
           upto == IF missing = {} THEN SeqNo[val] ELSE Min(missing) - 1
<1>3. /\ val \in Ledgers /\ SeqNo[val] \in Nat /\ SeqNo[val] > PubSeq /\ Rooted(val)
  <2>1. pubLedgers \in Seq(Ledgers) /\ Len(pubLedgers) = 1 /\ SeqNo[pubLedgers[1]] > PubSeq
    BY DEF FindNewLedgersToPublish, TypeInv, OrderInv
  <2>2. val = pubLedgers[1] /\ pubLedgers[1] \in Ledgers
    <3>1. pubLedgers # <<>> /\ 1 \in 1 .. Len(pubLedgers)
      BY <2>1
    <3> QED BY ONLY <2>1, <3>1
  <2>3. Rooted(pubLedgers[1])
    <3>1. 1 \in 1 .. Len(pubLedgers)
      BY <2>1
    <3> QED BY <3>1 DEF RootInv
  <2>4. SeqNo[val] \in Nat
    BY <2>2, LedgersAssumption
  <2> HIDE DEF val
  <2> QED BY <2>1, <2>2, <2>3, <2>4
<1>4. upto \in Nat /\ upto <= SeqNo[val] /\ upto >= PubSeq
  <2>1. missing \in SUBSET Nat /\ \A s \in missing : s > PubSeq /\ s <= SeqNo[val]
    BY <1>2, <1>3
  <2>2. missing # {} => Min(missing) \in missing
    <3> HIDE DEF missing
    <3> QED BY <2>1, MinOf
  <2>3. CASE missing = {}
    BY <1>2, <1>3, <2>3
  <2>4. CASE missing # {}
    <3> DEFINE m == Min(missing)
    <3>1. m > PubSeq /\ m <= SeqNo[val] /\ m \in Nat
      <4> HIDE DEF missing
      <4> QED BY Zenon, <2>1, <2>2, <2>4
    <3>2. upto = m - 1
      BY <2>4
    <3> HIDE DEF m, val, upto
    <3> QED BY <1>2, <1>3, <3>1, <3>2
  <2> QED BY <2>3, <2>4
<1>5. /\ pubLedgers' = [i \in 1 .. upto - PubSeq |-> HashAt[val][PubSeq + i]]
      /\ advance' = IF upto = PubSeq THEN "end" ELSE "publish"
  BY Zenon DEF FindNewLedgersToPublish
<1> HIDE DEF upto, val
<1>6. ASSUME NEW i \in 1 .. upto - PubSeq
      PROVE /\ PubSeq + i \in 1 .. SeqNo[val]
            /\ HashAt[val][PubSeq + i] \in Ledgers
            /\ SeqNo[HashAt[val][PubSeq + i]] = PubSeq + i
            /\ Rooted(HashAt[val][PubSeq + i])
  <2>1. PubSeq + i \in 1 .. SeqNo[val]
    BY <1>2, <1>3, <1>4
  <2>2. HashAt[val][PubSeq + i] \in Ledgers /\ SeqNo[HashAt[val][PubSeq + i]] = PubSeq + i
    BY <1>3, <2>1, LedgersAssumption
  <2> QED BY <1>3, <2>1, <2>2, AncestorsRooted
<1>7. upto - PubSeq \in Nat /\ (upto # PubSeq => upto - PubSeq > 0)
  BY <1>2, <1>4
<1>8. pubLedgers' \in Seq(Ledgers) /\ Len(pubLedgers') = upto - PubSeq
  BY <1>5, <1>6, <1>7
<1>9. \A l : Rooted(l) => Rooted(l)'
  BY <1>1, RootedStays DEF RootInv
<1>10. TypeInv'
  BY <1>1, <1>2, <1>5, <1>8, LedgersAssumption DEF TypeInv, Places
<1>11. InLine'
  <2>1. \A i \in 1 .. Len(pubLedgers') : SeqNo[pubLedgers'[i]] = PubSeq + i
    BY Zenon, <1>5, <1>6, <1>8
  <2> QED BY <1>2, <2>1 DEF InLine
<1>12. OrderInv'
  <2>1. advance' = "publish" => pubLedgers' # <<>>
    BY <1>5, <1>7, <1>8
  <2> QED BY <1>1, <1>2, <1>5, <1>11, <2>1 DEF OrderInv
<1>13. RootInv'
  BY Zenon, <1>1, <1>5, <1>6, <1>8, <1>9 DEF RootInv
<1> QED BY Zenon, <1>10, <1>11, <1>12, <1>13

\* While the thread has a ledger in hand, it is the head of pubLedgers.
LEMMA HeadOf ==
  ASSUME Inv, advance \in {"publish", "check", "publishing", "fill", "checkfill"}
  PROVE /\ 1 \in 1 .. Len(pubLedgers) /\ pubLedgers # <<>> /\ Head(pubLedgers) = pubLedgers[1]
        /\ pubLedgers[1] \in Ledgers /\ Rooted(pubLedgers[1])
<1>1. pubLedgers \in Seq(Ledgers) /\ pubLedgers # <<>>
  <2>1. pubLedgers \in Seq(Ledgers) /\ (pubLedgers # <<>> \/ Len(pubLedgers) = 1)
    BY DEF Inv, TypeInv, OrderInv
  <2> QED BY ONLY <2>1
<1>2. /\ 1 \in 1 .. Len(pubLedgers) /\ Head(pubLedgers) = pubLedgers[1]
      /\ pubLedgers[1] \in Ledgers
  BY ONLY <1>1
<1> QED BY <1>1, <1>2 DEF Inv, RootInv

\* There is a sequence below mPubLedger that is not marked, 0 if no other: the
\* largest is the one that prevMissing returns.
LEMMA PrevMissingOf ==
  ASSUME TypeInv, mPubLedger \in Ledgers
  PROVE /\ PrevMissing(PubSeq) \in 0 .. PubSeq - 1 /\ PrevMissing(PubSeq) \notin mCompleteLedgers
        /\ PrevMissing(PubSeq) + 1 \in Seqs
<1>1. PubSeq = SeqNo[mPubLedger] /\ PubSeq \in Nat \ {0}
  BY LedgersAssumption DEF TypeInv, PubSeq, SeqOrZero
<1> DEFINE S == {n \in 0 .. PubSeq - 1 : n \notin mCompleteLedgers}
           missing == PrevMissing(PubSeq)
<1>2. PubSeq - 1 \in Nat /\ S \in SUBSET (0 .. PubSeq - 1)
  BY <1>1
<1>3. 0 \in S
  BY <1>1, LedgersAssumption DEF TypeInv, Seqs
<1>4. Max(S) \in S
  <2> HIDE DEF S
  <2> QED BY Zenon, <1>2, <1>3, MaxOf
<1>5. missing \in 0 .. PubSeq - 1 /\ missing \notin mCompleteLedgers
  BY <1>4 DEF PrevMissing
<1> HIDE DEF missing
<1>6. missing + 1 \in 1 .. SeqNo[mPubLedger]
  BY <1>1, <1>5
<1>7. HashAt[mPubLedger][missing + 1] \in Ledgers
      /\ SeqNo[HashAt[mPubLedger][missing + 1]] = missing + 1
  BY <1>6, LedgersAssumption
<1>8. missing + 1 \in Seqs
  BY <1>7 DEF Seqs
<1> QED BY Zenon, <1>5, <1>8 DEF missing

\* Filling the history takes up the parent of a ledger of the history.
LEMMA FillKeepsInv ==
  ASSUME Inv, FillHistory
  PROVE Inv'
<1> USE DEF Inv
<1>1. UNCHANGED <<mValidations, mValidLedger, mPubLedger, bySeq, have, built, stream, published>>
  BY DEF FillHistory, restVars, setVars
<1>2. /\ mPubLedger \in Ledgers /\ PubSeq = SeqNo[mPubLedger]
      /\ PubSeq' = PubSeq /\ PubSeq \in Nat \ {0}
  BY <1>1, LedgersAssumption DEF FillHistory, TypeInv, PubSeq, SeqOrZero
<1> DEFINE missing == PrevMissing(PubSeq)
           next == bySeq[missing + 1]
<1>3. missing + 1 \in Seqs
  BY <1>2, PrevMissingOf
<1>4. next \in Ledgers \cup {None} /\ (next # None => Rooted(next))
  BY ZenonT(30), <1>3 DEF TypeInv, RootInv
<1>5. \/ /\ pubLedgers' = <<Parent[next]>> /\ advance' = "fill" /\ next # None
         /\ Parent[next] \in have
      \/ UNCHANGED pubLedgers /\ advance' = "end"
  BY ZenonT(30) DEF FillHistory
<1>6. mCompleteLedgers' \subseteq mCompleteLedgers
  BY Zenon DEF FillHistory
<1>7. \A l : Rooted(l) => Rooted(l)'
  BY <1>1, RootedStays DEF RootInv
<1> HIDE DEF next
<1>8. CASE UNCHANGED pubLedgers /\ advance' = "end"
  <2>1. TypeInv'
    BY <1>1, <1>2, <1>6, <1>8, LedgersAssumption DEF TypeInv, Places
  <2>2. OrderInv'
    BY <1>1, <1>2, <1>8 DEF OrderInv
  <2>3. RootInv'
    BY <1>1, <1>7, <1>8 DEF RootInv
  <2> QED BY <2>1, <2>2, <2>3
<1>9. CASE /\ pubLedgers' = <<Parent[next]>> /\ advance' = "fill" /\ next # None
           /\ Parent[next] \in have
  <2>1. Parent[next] \in Ledgers /\ Rooted(Parent[next])
    BY <1>4, <1>9, ParentRooted DEF TypeInv
  <2>2. pubLedgers' \in Seq(Ledgers) /\ Len(pubLedgers') = 1 /\ pubLedgers'[1] = Parent[next]
    BY <1>9, <2>1
  <2>3. TypeInv'
    BY <1>1, <1>2, <1>6, <1>9, <2>2, LedgersAssumption DEF TypeInv, Places
  <2>4. OrderInv'
    BY <1>1, <1>2, <1>9, <2>2 DEF OrderInv
  <2>5. RootInv'
    <3>1. \A i \in 1 .. Len(pubLedgers') : Rooted(pubLedgers'[i])
      BY <2>1, <2>2
    <3> QED BY <1>1, <3>1, RootsKept DEF RootInv
  <2> QED BY <2>3, <2>4, <2>5
<1> QED BY <1>5, <1>8, <1>9

\* setFullLedger puts the ledger in hand into the history and marks it; its check
\* only takes marks away.
LEMMA SetFullKeepsInv ==
  ASSUME Inv, SetFullLedger \/ CheckPrevious
  PROVE Inv'
<1> USE DEF Inv
<1> DEFINE l == Head(pubLedgers)
<1>1. UNCHANGED <<mValidations, mValidLedger, mPubLedger, built, pubLedgers, stream, published>>
  BY DEF SetFullLedger, CheckPrevious, restVars, setVars, acceptVars, pubVars
<1>2. mPubLedger \in Ledgers /\ PubSeq' = PubSeq
  BY <1>1 DEF SetFullLedger, CheckPrevious, TypeInv, PubSeq, SeqOrZero
<1>3. l \in Ledgers /\ Rooted(l) /\ SeqNo[l] \in Seqs /\ l # None
  <2>1. advance \in {"publish", "check", "publishing", "fill", "checkfill"}
    BY DEF SetFullLedger, CheckPrevious
  <2>2. l \in Ledgers /\ Rooted(l)
    BY <2>1, HeadOf
  <2> HIDE DEF l
  <2> QED BY <2>2, LedgersAssumption DEF Seqs
<1> HIDE DEF l
<1>5. /\ have' \subseteq Ledgers
      /\ bySeq' \in {bySeq, [bySeq EXCEPT ![SeqNo[l]] = l]}
      /\ mCompleteLedgers' \subseteq {s \in Seqs : bySeq'[s] # None}
  <2>1. CASE SetFullLedger
    <3>1. /\ have' = have \cup {l} /\ bySeq' = [bySeq EXCEPT ![SeqNo[l]] = l]
          /\ mCompleteLedgers' = mCompleteLedgers \cup {SeqNo[l]}
      BY <2>1 DEF SetFullLedger, l
    <3> QED BY <1>3, <3>1 DEF TypeInv
  <2>2. CASE CheckPrevious
    <3>1. UNCHANGED <<have, bySeq>> /\ mCompleteLedgers' \subseteq mCompleteLedgers
      BY <2>2 DEF CheckPrevious, acquireVars, acceptVars
    <3> QED BY <3>1 DEF TypeInv
  <2> QED BY <2>1, <2>2
<1>6. /\ bySeq' \in [Seqs -> Ledgers \cup {None}]
      /\ \A s \in Seqs : bySeq'[s] = bySeq[s] \/ (s = SeqNo[l] /\ bySeq'[s] = l)
      /\ \A s \in Seqs : bySeq'[s] # None => SeqNo[bySeq'[s]] = s
  BY <1>3, <1>5, PutBySeq
<1>7. \/ advance \in {"publish", "check"} /\ advance' \in {"check", "publishing"}
      \/ advance \in {"fill", "checkfill"} /\ advance' \in {"checkfill", "end"}
  BY DEF SetFullLedger, CheckPrevious
<1>8. TypeInv'
  BY <1>1, <1>2, <1>5, <1>6, <1>7, LedgersAssumption DEF TypeInv, Places
<1>9. OrderInv'
  <2>1. (Jump \/ InLine) => (Jump \/ InLine)'
    BY <1>1, <1>2 DEF Jump, InLine
  <2> QED BY <1>1, <1>2, <1>7, <2>1 DEF OrderInv
<1>10. RootInv'
  <2>1. \A s \in Seqs : bySeq'[s] # None => Rooted(bySeq'[s])
    BY <1>3, <1>6 DEF RootInv
  <2> QED BY <1>1, <2>1, RootsKept DEF RootInv
<1> QED BY <1>8, <1>9, <1>10

\* Publishing moves mPubLedger and the stream to the ledger in hand.
LEMMA PubKeepsInv ==
  ASSUME Inv, PubLedger
  PROVE /\ Inv' /\ (stream # None => \/ SeqNo[stream'] = SeqNo[stream] + 1
                                     \/ SeqNo[stream'] > SeqNo[stream] + MaxLedgerGap)
<1> USE DEF Inv
<1> DEFINE l == pubLedgers[1]
<1>1. /\ stream' = l /\ mPubLedger' = l /\ published' = published \cup {l}
      /\ pubLedgers' = Tail(pubLedgers)
      /\ UNCHANGED <<mValidations, mValidLedger, bySeq, have, built, mCompleteLedgers>>
      /\ IF Len(pubLedgers) > 1 THEN advance' = "publish" ELSE advance' = "end"
  BY HeadOf DEF PubLedger, restVars, setVars, acquireVars
<1>2. l \in Ledgers /\ Rooted(l) /\ l # None /\ SeqNo[l] \in Nat
  BY Zenon, HeadOf, LedgersAssumption DEF PubLedger
<1>3. mPubLedger \in Ledgers /\ mValidLedger # None /\ PubSeq = SeqNo[mPubLedger] /\ PubSeq \in Nat
  BY LedgersAssumption DEF PubLedger, TypeInv, PubSeq, SeqOrZero
<1>4. PubSeq' = SeqNo[l]
  BY <1>1, <1>2 DEF PubSeq, SeqOrZero
<1>5. \A k : Rooted(k) => Rooted(k)'
  BY <1>1, RootedStays DEF RootInv
<1>6. pubLedgers \in Seq(Ledgers) /\ pubLedgers # <<>> /\ (Jump \/ InLine)
  BY DEF PubLedger, TypeInv, OrderInv
<1>7. /\ pubLedgers' \in Seq(Ledgers) /\ Len(pubLedgers') = Len(pubLedgers) - 1
      /\ Len(pubLedgers) \in Nat /\ Len(pubLedgers) >= 1
      /\ \A i \in 1 .. Len(pubLedgers') :
           i + 1 \in 1 .. Len(pubLedgers) /\ pubLedgers'[i] = pubLedgers[i + 1]
  BY ONLY <1>1, <1>6
<1>8. InLine => SeqNo[l] = PubSeq + 1
  BY <1>7 DEF InLine
<1>9. Jump => l = mPubLedger /\ Len(pubLedgers) = 1
  BY DEF Jump
<1>10. ASSUME stream # None
       PROVE SeqNo[l] = SeqNo[stream] + 1 \/ SeqNo[l] > SeqNo[stream] + MaxLedgerGap
  <2>1. stream \in Ledgers /\ SeqNo[stream] \in Nat /\ MaxLedgerGap \in Nat
    BY <1>10, LedgersAssumption DEF TypeInv
  <2>2. SeqNo[stream] = PubSeq \/ SeqNo[stream] + MaxLedgerGap < PubSeq
    BY <1>10 DEF OrderInv
  <2>3. Jump => SeqNo[stream] + MaxLedgerGap < PubSeq
    BY <1>10 DEF Jump
  <2> HIDE DEF l
  <2> QED BY <1>2, <1>3, <1>6, <1>8, <1>9, <2>1, <2>2, <2>3
<1> HIDE DEF l
<1>11. TypeInv'
  BY <1>1, <1>2, <1>3, <1>7 DEF TypeInv, Places
<1>12. OrderInv'
  <2>1. stream' = l /\ SeqNo[stream'] = PubSeq'
    BY <1>1, <1>4
  <2>2. CASE Len(pubLedgers) > 1
    <3>1. InLine
      BY <1>6, <1>9, <2>2
    <3>2. ASSUME NEW i \in 1 .. Len(pubLedgers') PROVE SeqNo[pubLedgers'[i]] = PubSeq' + i
      <4>1. SeqNo[pubLedgers[i + 1]] = PubSeq + (i + 1)
        BY <1>7, <3>1 DEF InLine
      <4>2. pubLedgers'[i] = pubLedgers[i + 1] /\ PubSeq' = PubSeq + 1
        BY <1>4, <1>7, <1>8, <3>1
      <4>3. i \in Nat
        BY <1>7
      <4> QED BY <1>3, <4>1, <4>2, <4>3
    <3>3. InLine' /\ pubLedgers' # <<>>
      BY <1>7, <2>2, <3>2 DEF InLine
    <3> QED BY <1>1, <2>1, <2>2, <3>3 DEF OrderInv
  <2>3. CASE ~(Len(pubLedgers) > 1)
    BY <1>1, <2>1, <2>3 DEF OrderInv
  <2> QED BY <2>2, <2>3
<1>13. RootInv'
  <2>1. \A i \in 1 .. Len(pubLedgers') : Rooted(pubLedgers'[i])
    BY <1>7 DEF RootInv
  <2> QED BY Zenon, <1>1, <1>2, <1>5, <2>1 DEF RootInv
<1> QED BY <1>1, <1>10, <1>11, <1>12, <1>13

\* An exception ends the thread; the ledger in hand may have entered the history.
LEMMA ThrowKeepsInv ==
  ASSUME Inv, AdvanceThrows
  PROVE Inv'
<1> USE DEF Inv
<1> DEFINE l == pubLedgers[1]
<1>1. /\ UNCHANGED <<mValidations, mValidLedger, mPubLedger, built, mCompleteLedgers, stream,
                     published>>
      /\ advance' = "none" /\ pubLedgers' = <<>>
      /\ have' \in {have, have \cup {l}} /\ bySeq' \in {bySeq, [bySeq EXCEPT ![SeqNo[l]] = l]}
  BY HeadOf DEF AdvanceThrows, ThreadEnds, restVars, setVars
<1>2. l \in Ledgers /\ Rooted(l) /\ l # None /\ SeqNo[l] \in Seqs
  BY HeadOf, LedgersAssumption DEF AdvanceThrows, Seqs
<1> HIDE DEF l
<1>3. /\ bySeq' \in [Seqs -> Ledgers \cup {None}]
      /\ \A s \in Seqs : bySeq'[s] = bySeq[s] \/ (s = SeqNo[l] /\ bySeq'[s] = l)
      /\ \A s \in Seqs : bySeq'[s] # None => SeqNo[bySeq'[s]] = s
      /\ \A s \in Seqs : bySeq[s] # None => bySeq'[s] # None
  BY <1>1, <1>2, PutBySeq
<1>4. have' \subseteq Ledgers /\ mCompleteLedgers' \subseteq {s \in Seqs : bySeq'[s] # None}
  BY <1>1, <1>2, <1>3 DEF TypeInv
<1>5. PubSeq' = PubSeq
  BY <1>1 DEF PubSeq, SeqOrZero
<1>6. TypeInv'
  <2>1. <<>> \in Seq(Ledgers)
    OBVIOUS
  <2> QED BY <1>1, <1>3, <1>4, <2>1 DEF TypeInv, Places
<1>7. OrderInv'
  BY <1>1, <1>5 DEF OrderInv
<1>8. RootInv'
  <2>1. \A s \in Seqs : bySeq'[s] # None => Rooted(bySeq'[s])
    BY <1>2, <1>3 DEF RootInv
  <2>2. \A i \in 1 .. Len(pubLedgers') : Rooted(pubLedgers'[i])
    <3>1. Len(pubLedgers') = 0
      BY <1>1
    <3> QED BY <3>1
  <2>3. /\ IsFiniteSet(mValidations') /\ mValidations \subseteq mValidations'
        /\ mValidLedger' # None => Rooted(mValidLedger')
        /\ \A k \in published' : Rooted(k)
    BY <1>1 DEF RootInv
  <2> QED BY Zenon, <2>1, <2>2, <2>3, RootsKept
<1> QED BY <1>6, <1>7, <1>8

----
(* The theorems. *)

\* Every step keeps the invariant.
LEMMA NextInv == Inv /\ [Next]_vars => Inv'
<1> SUFFICES ASSUME Inv, [Next]_vars PROVE Inv'
  OBVIOUS
<1>1. CASE \/ \E l \in Ledgers : CheckAccept(l) \/ SwitchLedgers(l) \/ LADispatch(l)
           \/ ConsensusBuilt \/ \E S \in SUBSET Nodes : CheckSavedUp(S)
  BY <1>1, AcceptingSteps, AcceptsKeepsInv DEF Inv
<1>2. CASE \/ \E v \in AllValidations : AddValidation(v)
           \/ \E l \in Ledgers : StartBuilding(l) \/ AcquireDone(l) \/ AcquireFails(l)
           \/ \E fails \in BOOLEAN : StoreBuilt(fails)
           \/ UNCHANGED vars
  BY <1>2, OthersKeepInv
<1>3. CASE Advance \/ AdvanceThrows
  BY <1>3, LoopKeepsInv, FindKeepsInv, FillKeepsInv, SetFullKeepsInv, PubKeepsInv, ThrowKeepsInv
     DEF Advance
<1> QED BY <1>1, <1>2, <1>3 DEF Next

\* The invariant holds throughout.
THEOREM InvHolds == Spec => []Inv
<1> QED BY InitInv, NextInv, PTL DEF Spec

\* Only publishing moves the stream.
LEMMA OnlyPubLedgerMovesStream ==
  ASSUME [Next]_vars, Inv, stream' # stream
  PROVE PubLedger
<1>1. CASE \/ \E l \in Ledgers : CheckAccept(l) \/ SwitchLedgers(l) \/ LADispatch(l)
           \/ ConsensusBuilt \/ \E S \in SUBSET Nodes : CheckSavedUp(S)
  BY Zenon, <1>1, AcceptingSteps DEF Accepts, pubVars, Inv
<1>2. CASE \/ \E v \in AllValidations : AddValidation(v)
           \/ \E l \in Ledgers : StartBuilding(l) \/ AcquireDone(l) \/ AcquireFails(l)
           \/ \E fails \in BOOLEAN : StoreBuilt(fails)
           \/ UNCHANGED vars
  BY <1>2 DEF AddValidation, StartBuilding, AcquireDone, AcquireFails, StoreBuilt, vars, pubVars
<1>3. CASE Advance \/ AdvanceThrows
  BY Zenon, <1>3
    DEF Advance, AdvanceThrows, StartAdvance, EndLoop, FindNewLedgersToPublish, FillHistory,
              SetFullLedger, CheckPrevious, pubVars
<1> QED BY <1>1, <1>2, <1>3 DEF Next

\* Whatever is validated, forked, acquired or lost meanwhile, and wherever the
\* advance thread stops, clients are told of the validated ledgers one by one, and
\* ledgers are left out only when the server is more than MAX_LEDGER_GAP behind.
THEOREM PublishesInOrder == Spec => PublishedInOrder
<1> DEFINE Step == stream' # stream =>
              \/ stream = None
              \/ SeqNo[stream'] = SeqNo[stream] + 1
              \/ SeqNo[stream'] > SeqNo[stream] + MaxLedgerGap
<1>1. ASSUME Inv, [Next]_vars PROVE [Step]_vars
  BY <1>1, OnlyPubLedgerMovesStream, PubKeepsInv
<1> QED BY <1>1, InvHolds, PTL DEF Spec, PublishedInOrder

\* No order of validations, forks, builds and acquisitions makes the server publish
\* a ledger, or count it as validated history, that does not go back to a ledger
\* with the configured quorum or to the one it started from.
THEOREM PublishesBacked == Spec => []PublishedIsBacked
<1>1. Inv => PublishedIsBacked
  BY Zenon DEF Inv, TypeInv, RootInv, PublishedIsBacked
<1> QED BY <1>1, InvHolds, PTL

----
(* The history is a chain. *)

Publishing == {"publish", "check", "publishing"}
Hand == SeqNo[pubLedgers[1]]

\* Nothing is marked above the ledger in hand, or above mPubLedger when there is
\* none; one exception may leave the next sequence marked.  The sequence that is to
\* be filled is not marked, and the ledger in hand is the parent of the next one.
TopInv ==
  /\ faults \in Nat
  /\ advance # "none" => mAdvanceThread
  /\ mPubLedger = None => mCompleteLedgers = {}
  /\ faults = 0 => \A s \in mCompleteLedgers :
       /\ advance = "publish" => s < Hand
       /\ advance \notin Publishing => s <= PubSeq
  /\ faults <= 1 => \A s \in mCompleteLedgers :
       /\ advance \in Publishing => s <= Hand
       /\ advance \notin Publishing => s <= PubSeq + 1
  /\ advance \in {"fill", "checkfill"} => Hand < PubSeq
  /\ advance = "fill" => Hand \notin mCompleteLedgers /\ Parent[bySeq[Hand + 1]] = pubLedgers[1]
  /\ advance \in {"check", "checkfill"} => bySeq[Hand] = pubLedgers[1]

\* A marked ledger is the parent of the next one that is marked; the one in hand
\* may not have been checked yet.
LinkInv ==
  faults <= 1 => \A s \in mCompleteLedgers : s + 1 \in mCompleteLedgers =>
      \/ bySeq[s] = Parent[bySeq[s + 1]]
      \/ advance \in {"check", "checkfill"} /\ s + 1 = Hand

ChainInv == TopInv /\ LinkInv

\* It holds at the start.
LEMMA InitChain == Init => ChainInv
<1> SUFFICES ASSUME Init PROVE ChainInv
  OBVIOUS
<1>1. /\ faults = 0 /\ advance = "none" /\ mPubLedger \in {None, Start}
      /\ mPubLedger = None => mCompleteLedgers = {}
      /\ mPubLedger = Start => mCompleteLedgers = {SeqNo[Start]}
  BY LedgersAssumption DEF Init
<1>2. SeqNo[Start] \in Nat /\ Start # None
  BY LedgersAssumption
<1>3. /\ PubSeq \in Nat
      /\ \A s \in mCompleteLedgers : s \in Nat /\ s = PubSeq /\ s + 1 \notin mCompleteLedgers
  BY <1>1, <1>2 DEF PubSeq, SeqOrZero
<1>4. TopInv
  <2>1. \A s \in mCompleteLedgers : s <= PubSeq /\ s <= PubSeq + 1
    BY <1>3
  <2>2. faults \in Nat /\ advance \notin Publishing \cup {"fill", "checkfill"}
    BY <1>1 DEF Publishing
  <2> QED BY <1>1, <2>1, <2>2 DEF TopInv, Publishing
<1>5. LinkInv
  BY <1>3 DEF LinkInv
<1> QED BY <1>4, <1>5 DEF ChainInv

\* Sequences are natural numbers.
LEMMA SeqTypes ==
  ASSUME Inv
  PROVE /\ PubSeq \in Nat /\ \A s \in mCompleteLedgers : s \in Seqs /\ s \in Nat \ {0}
        /\ advance \in {"publish", "check", "publishing", "fill", "checkfill"}
             => Hand \in Nat \ {0} /\ Hand \in Seqs
<1>1. \A l \in Ledgers : SeqNo[l] \in Nat \ {0} /\ SeqNo[l] \in Seqs
  BY LedgersAssumption DEF Seqs
<1>2. PubSeq \in Nat
  BY <1>1 DEF Inv, TypeInv, PubSeq, SeqOrZero
<1>3. \A s \in mCompleteLedgers : s \in Seqs /\ s \in Nat \ {0}
  BY <1>1 DEF Inv, TypeInv, Seqs
<1> QED BY <1>1, <1>2, <1>3, HeadOf DEF Hand

\* The ledger that is being published follows mPubLedger, or is mPubLedger.
LEMMA HandNearPub ==
  ASSUME Inv, advance \in Publishing
  PROVE Hand = PubSeq \/ (Hand = PubSeq + 1 /\ InLine)
<1>1. 1 \in 1 .. Len(pubLedgers) /\ (Jump \/ InLine)
  BY HeadOf DEF Publishing, Inv, OrderInv
<1>2. mPubLedger # None
  BY DEF Inv, TypeInv, Publishing
<1>3. Jump => Hand = PubSeq
  BY <1>2 DEF Jump, Hand, PubSeq, SeqOrZero
<1>4. InLine => Hand = PubSeq + 1
  BY <1>1 DEF InLine, Hand
<1> QED BY <1>1, <1>3, <1>4

\* A step that leaves the history, the marks and the ledger in hand alone keeps the
\* chain, also if it starts the thread or is a fault.
LEMMA ChainKept ==
  ASSUME Inv, ChainInv, UNCHANGED <<mPubLedger, mCompleteLedgers, bySeq, pubLedgers>>,
         advance' = advance \/ (advance = "none" /\ advance' = "queued"),
         advance' # "none" => mAdvanceThread', faults' \in {faults, faults + 1}
  PROVE ChainInv'
<1>1. PubSeq' = PubSeq /\ Hand' = Hand
  BY DEF PubSeq, SeqOrZero, Hand
<1>2. /\ (advance \in Publishing <=> advance' \in Publishing)
      /\ (advance = "publish" <=> advance' = "publish")
      /\ (advance = "fill" <=> advance' = "fill")
      /\ (advance \in {"fill", "checkfill"} <=> advance' \in {"fill", "checkfill"})
      /\ (advance \in {"check", "checkfill"} <=> advance' \in {"check", "checkfill"})
  BY DEF Publishing
<1>3. faults' \in Nat /\ (faults' <= 1 => faults <= 1) /\ (faults' = 0 => faults = 0)
  BY DEF ChainInv, TopInv
<1>4. TopInv'
  BY <1>1, <1>2, <1>3 DEF ChainInv, TopInv
<1>5. LinkInv'
  BY <1>1, <1>2, <1>3 DEF ChainInv, LinkInv
<1> QED BY <1>4, <1>5 DEF ChainInv

\* Accepting a ledger keeps the chain: with the first one nothing is marked yet, and
\* later only the thread touches the history.
LEMMA AcceptsKeepsChain ==
  ASSUME Inv, ChainInv, Accepts
  PROVE ChainInv'
<1>1. UNCHANGED <<pubLedgers, mCompleteLedgers, faults>>
  BY DEF Accepts, pubVars
<1>2. (advance' = advance /\ mAdvanceThread' = mAdvanceThread)
      \/ (~mAdvanceThread /\ advance' = "queued" /\ mAdvanceThread')
  BY DEF Accepts, Accept, TryAdvance, advanceVars
<1>3. /\ advance' = advance \/ (advance = "none" /\ advance' = "queued")
      /\ advance' # "none" => mAdvanceThread'
  BY <1>2 DEF ChainInv, TopInv
<1>4. CASE UNCHANGED <<mPubLedger, bySeq>>
  BY <1>1, <1>3, <1>4, ChainKept
<1>5. CASE ~UNCHANGED <<mPubLedger, bySeq>>
  <2>1. mPubLedger = None
    BY <1>5 DEF Accepts, Accept, acceptVars
  <2>2. mCompleteLedgers' = {} /\ advance' \in {"none", "queued"}
    BY <1>1, <1>3, <2>1 DEF ChainInv, TopInv, Inv, TypeInv
  <2>3. TopInv'
    BY <1>1, <1>3, <2>2 DEF ChainInv, TopInv
  <2>4. LinkInv'
    BY <2>2 DEF LinkInv
  <2> QED BY <2>3, <2>4 DEF ChainInv
<1> QED BY <1>4, <1>5

\* So do a validation that arrives, and ledgers that are built or acquired.
LEMMA OthersKeepChain ==
  ASSUME Inv, ChainInv,
         \/ \E v \in AllValidations : AddValidation(v)
         \/ \E l \in Ledgers : StartBuilding(l) \/ AcquireDone(l) \/ AcquireFails(l)
         \/ \E fails \in BOOLEAN : StoreBuilt(fails)
         \/ UNCHANGED vars
  PROVE ChainInv'
<1>1. /\ UNCHANGED <<acceptVars, advanceVars, pubVars, mCompleteLedgers>>
      /\ faults' \in {faults, faults + 1}
  BY DEF AddValidation, StartBuilding, AcquireDone, AcquireFails, StoreBuilt, vars
<1>2. UNCHANGED <<mPubLedger, mCompleteLedgers, bySeq, pubLedgers, advance, mAdvanceThread>>
  BY <1>1 DEF acceptVars, advanceVars, pubVars
<1> QED BY Zenon, <1>1, <1>2, ChainKept DEF ChainInv, TopInv

\* The top of the loop takes up a ledger above everything that is marked, or none.
LEMMA LoopKeepsChain ==
  ASSUME Inv, ChainInv, StartAdvance \/ EndLoop
  PROVE ChainInv'
<1>1. UNCHANGED <<mValidLedger, bySeq, mCompleteLedgers, faults>>
  BY DEF StartAdvance, EndLoop
<1>2. mPubLedger \in Ledgers /\ mValidLedger \in Ledgers /\ advance \in {"queued", "end"}
  BY DEF StartAdvance, EndLoop, Inv, TypeInv
<1>3. /\ ValidSeq = SeqNo[mValidLedger] /\ ValidSeq \in Nat
      /\ PubSeq \in Nat /\ MaxLedgerGap \in Nat
      /\ \A s \in mCompleteLedgers : s \in Nat
  BY <1>2, SeqTypes, LedgersAssumption DEF ValidSeq, SeqOrZero
<1>4. /\ mAdvanceThread /\ faults \in Nat
      /\ faults = 0 => \A s \in mCompleteLedgers : s <= PubSeq
      /\ faults <= 1 => \A s \in mCompleteLedgers : s <= PubSeq + 1
      /\ faults <= 1 => \A s \in mCompleteLedgers : s + 1 \in mCompleteLedgers =>
                          bySeq[s] = Parent[bySeq[s + 1]]
  BY Zenon, <1>2 DEF ChainInv, TopInv, LinkInv, Publishing
<1>5. LinkInv'
  BY <1>1, <1>4 DEF LinkInv
<1>6. Loop \/ (ThreadEnds /\ UNCHANGED <<mPubLedger, pubLedgers>>)
  BY DEF StartAdvance, EndLoop
<1>7. CASE /\ mPubLedger' = mValidLedger /\ pubLedgers' = <<mValidLedger>> /\ advance' = "publish"
           /\ TooFar /\ UNCHANGED mAdvanceThread
  <2>1. Hand' = ValidSeq /\ ValidSeq > PubSeq + MaxLedgerGap
    BY <1>3, <1>7 DEF Hand, TooFar
  <2>2. /\ faults = 0 => \A s \in mCompleteLedgers : s < ValidSeq
        /\ faults <= 1 => \A s \in mCompleteLedgers : s <= ValidSeq
    BY <1>3, <1>4, <2>1
  <2>3. mPubLedger' # None
    BY <1>2, <1>7, LedgersAssumption
  <2>4. TopInv'
    BY <1>1, <1>4, <1>7, <2>1, <2>2, <2>3 DEF TopInv, Publishing
  <2> QED BY <1>5, <2>4 DEF ChainInv
<1>8. CASE /\ mPubLedger' = mPubLedger /\ advance' \in {"find", "history", "none"}
           /\ advance' # "none" => UNCHANGED mAdvanceThread
  <2>1. PubSeq' = PubSeq /\ mPubLedger' # None
    BY <1>2, <1>8, LedgersAssumption DEF PubSeq, SeqOrZero
  <2>2. TopInv'
    BY Zenon, <1>1, <1>4, <1>8, <2>1 DEF TopInv, Publishing
  <2> QED BY <1>5, <2>2 DEF ChainInv
<1> QED BY <1>6, <1>7, <1>8 DEF Loop, ThreadEnds

\* findNewLedgersToPublish takes up the ledger after mPubLedger, or none.
LEMMA FindKeepsChain ==
  ASSUME Inv, ChainInv, FindNewLedgersToPublish
  PROVE ChainInv'
<1>1. /\ UNCHANGED <<mPubLedger, bySeq, mCompleteLedgers, faults, mAdvanceThread>>
      /\ advance = "find" /\ advance' \in {"end", "publish"}
  BY Zenon DEF FindNewLedgersToPublish
<1>2. /\ PubSeq' = PubSeq /\ PubSeq \in Nat /\ mPubLedger # None
      /\ \A s \in mCompleteLedgers : s \in Nat
  <2>1. PubSeq' = PubSeq
    BY Zenon, <1>1 DEF PubSeq, SeqOrZero
  <2>2. PubSeq \in Nat /\ \A s \in mCompleteLedgers : s \in Nat
    BY SeqTypes
  <2>3. mPubLedger # None
    BY <1>1 DEF Inv, TypeInv
  <2> QED BY Zenon, <2>1, <2>2, <2>3
<1>3. advance' = "publish" => Hand' = PubSeq + 1
  <2>1. Inv' /\ InLine'
    BY FindKeepsInv
  <2>2. advance' = "publish" => pubLedgers' # <<>> /\ pubLedgers' \in Seq(Ledgers)
    BY <2>1 DEF Inv, OrderInv, TypeInv
  <2>3. pubLedgers' # <<>> /\ pubLedgers' \in Seq(Ledgers) => 1 \in 1 .. Len(pubLedgers')
    OBVIOUS
  <2> QED BY <1>2, <2>1, <2>2, <2>3 DEF InLine, Hand
<1>4. /\ mAdvanceThread /\ faults \in Nat
      /\ faults = 0 => \A s \in mCompleteLedgers : s <= PubSeq
      /\ faults <= 1 => \A s \in mCompleteLedgers : s <= PubSeq + 1
      /\ faults <= 1 => \A s \in mCompleteLedgers : s + 1 \in mCompleteLedgers =>
                          bySeq[s] = Parent[bySeq[s + 1]]
  BY <1>1 DEF ChainInv, TopInv, LinkInv, Publishing
<1>5. LinkInv'
  BY <1>1, <1>4 DEF LinkInv
<1>6. faults = 0 => \A s \in mCompleteLedgers : s < PubSeq + 1
  BY <1>2, <1>4
<1>7. TopInv'
  <2>1. CASE advance' = "publish"
    BY <1>1, <1>2, <1>3, <1>4, <1>6, <2>1 DEF TopInv, Publishing
  <2>2. CASE advance' = "end"
    BY Zenon, <1>1, <1>2, <1>4, <2>2 DEF TopInv, Publishing
  <2> QED BY <1>1, <2>1, <2>2
<1> QED BY <1>5, <1>7 DEF ChainInv

\* Filling the history takes up the parent of the ledger after a gap.
LEMMA FillKeepsChain ==
  ASSUME Inv, ChainInv, FillHistory
  PROVE ChainInv'
<1> DEFINE missing == PrevMissing(PubSeq)
           next == bySeq[missing + 1]
<1>1. /\ UNCHANGED <<mPubLedger, bySeq, faults, mAdvanceThread>>
      /\ advance = "history" /\ mCompleteLedgers' \subseteq mCompleteLedgers
      /\ \/ /\ pubLedgers' = <<Parent[next]>> /\ advance' = "fill" /\ next # None
            /\ Parent[next] \in have /\ UNCHANGED mCompleteLedgers
         \/ advance' = "end"
  BY DEF FillHistory
<1>2. PubSeq' = PubSeq /\ PubSeq \in Nat /\ mPubLedger \in Ledgers /\ mPubLedger # None
  BY Zenon, <1>1, SeqTypes, LedgersAssumption DEF PubSeq, SeqOrZero, Inv, TypeInv
<1>3. /\ mAdvanceThread /\ faults \in Nat
      /\ faults = 0 => \A s \in mCompleteLedgers : s <= PubSeq
      /\ faults <= 1 => \A s \in mCompleteLedgers : s <= PubSeq + 1
      /\ faults <= 1 => \A s \in mCompleteLedgers : s + 1 \in mCompleteLedgers =>
                          bySeq[s] = Parent[bySeq[s + 1]]
  BY <1>1 DEF ChainInv, TopInv, LinkInv, Publishing
<1>4. LinkInv'
  BY <1>1, <1>3 DEF LinkInv
<1>5. missing \in 0 .. PubSeq - 1 /\ missing \notin mCompleteLedgers /\ missing + 1 \in Seqs
  BY Zenon, <1>2, PrevMissingOf DEF Inv
<1>6. ASSUME advance' = "fill"
      PROVE Hand' = missing /\ pubLedgers'[1] = Parent[next] /\ UNCHANGED mCompleteLedgers
  <2>1. pubLedgers'[1] = Parent[next] /\ Parent[next] \in Ledgers
    BY <1>1, <1>6 DEF Inv, TypeInv
  <2>2. next \in Ledgers /\ SeqNo[next] = missing + 1
    BY <1>1, <1>5, <1>6 DEF Inv, TypeInv
  <2>3. SeqNo[Parent[next]] = SeqNo[next] - 1
    BY Zenon, <2>1, <2>2, LedgersAssumption
  <2> HIDE DEF missing, next
  <2>4. SeqNo[Parent[next]] = missing
    BY <1>2, <1>5, <2>2, <2>3
  <2> QED BY Zenon, <1>1, <1>6, <2>1, <2>4 DEF Hand
<1> HIDE DEF missing
<1>7. missing < PubSeq
  BY <1>2, <1>5
<1>8. TopInv'
  BY <1>1, <1>2, <1>3, <1>5, <1>6, <1>7 DEF TopInv, Publishing
<1> QED BY <1>4, <1>8 DEF ChainInv

\* setFullLedger marks the ledger in hand: nothing is marked above it when it is
\* published, and when it fills a gap it is the parent of the next one.
LEMMA SetFullKeepsChain ==
  ASSUME Inv, ChainInv, SetFullLedger
  PROVE ChainInv'
<1> DEFINE l == pubLedgers[1]
<1>1. /\ UNCHANGED <<mPubLedger, faults, mAdvanceThread, pubLedgers>>
      /\ \/ advance = "publish" /\ advance' = "check"
         \/ advance = "fill" /\ advance' = "checkfill"
      /\ bySeq' = [bySeq EXCEPT ![Hand] = l]
      /\ mCompleteLedgers' = mCompleteLedgers \cup {Hand}
  BY HeadOf DEF SetFullLedger, Hand, pubVars
<1>2. PubSeq' = PubSeq /\ PubSeq \in Nat /\ Hand' = Hand /\ mPubLedger # None
  BY ZenonT(30), <1>1, SeqTypes DEF PubSeq, SeqOrZero, Hand, Inv, TypeInv
<1>3. Hand \in Nat \ {0} /\ Hand \in Seqs /\ \A s \in mCompleteLedgers : s \in Nat /\ s \in Seqs
  BY Zenon, <1>1, SeqTypes
<1>4. \A s \in Seqs : bySeq'[s] = IF s = Hand THEN l ELSE bySeq[s]
  BY <1>1 DEF Inv, TypeInv
<1>5. /\ mAdvanceThread /\ faults \in Nat
      /\ advance = "publish" /\ faults <= 1 => \A s \in mCompleteLedgers : s <= Hand
      /\ advance = "fill" /\ faults = 0 => \A s \in mCompleteLedgers : s <= PubSeq
      /\ advance = "fill" /\ faults <= 1 => \A s \in mCompleteLedgers : s <= PubSeq + 1
      /\ advance = "fill" => Hand < PubSeq /\ Parent[bySeq[Hand + 1]] = l
      /\ faults <= 1 => \A s \in mCompleteLedgers : s + 1 \in mCompleteLedgers =>
                          bySeq[s] = Parent[bySeq[s + 1]]
  BY <1>1 DEF ChainInv, TopInv, LinkInv, Publishing
<1>6. TopInv'
  <2>1. /\ advance = "publish" /\ faults <= 1 => \A s \in mCompleteLedgers' : s <= Hand
        /\ advance = "fill" /\ faults = 0 => \A s \in mCompleteLedgers' : s <= PubSeq
        /\ advance = "fill" /\ faults <= 1 => \A s \in mCompleteLedgers' : s <= PubSeq + 1
    BY <1>1, <1>2, <1>3, <1>5
  <2>2. bySeq'[Hand] = l /\ pubLedgers'[1] = l
    BY <1>1, <1>3, <1>4
  <2> QED BY <1>1, <1>2, <1>5, <2>1, <2>2 DEF TopInv, Publishing
<1> HIDE DEF l
<1>7. LinkInv'
  <2> SUFFICES ASSUME faults <= 1, NEW s \in mCompleteLedgers', s + 1 \in mCompleteLedgers',
                      s + 1 # Hand
               PROVE bySeq'[s] = Parent[bySeq'[s + 1]]
    BY <1>1, <1>2 DEF LinkInv
  <2>1. s + 1 \in mCompleteLedgers /\ bySeq'[s + 1] = bySeq[s + 1]
    BY <1>1, <1>3, <1>4
  <2>2. CASE s # Hand
    BY Zenon, <1>1, <1>3, <1>4, <1>5, <2>1, <2>2
  <2>3. CASE s = Hand
    <3>1. advance = "fill"
      BY <1>1, <1>3, <1>5, <2>1, <2>3
    <3> QED BY Zenon, <1>3, <1>4, <1>5, <2>1, <2>3, <3>1
  <2> QED BY <2>2, <2>3
<1> QED BY <1>6, <1>7 DEF ChainInv

\* The check: when the ledger before the one in hand is not its parent, that ledger
\* is dropped, with all others down to where the chains meet.
LEMMA CheckKeepsChain ==
  ASSUME Inv, ChainInv, CheckPrevious
  PROVE ChainInv'
<1> DEFINE l == pubLedgers[1]
<1>1. /\ UNCHANGED <<mPubLedger, faults, mAdvanceThread, pubLedgers, bySeq>>
      /\ \/ advance = "check" /\ advance' = "publishing"
         \/ advance = "checkfill" /\ advance' = "end"
      /\ mCompleteLedgers' \subseteq mCompleteLedgers
  BY DEF CheckPrevious, acceptVars, pubVars
<1>2. PubSeq' = PubSeq /\ PubSeq \in Nat /\ Hand' = Hand /\ mPubLedger # None
  BY Zenon, <1>1, SeqTypes DEF PubSeq, SeqOrZero, Hand, Inv, TypeInv
<1>3. /\ Hand \in Nat \ {0} /\ Hand = SeqNo[l] /\ l \in Ledgers
      /\ \A s \in mCompleteLedgers : s \in Nat \ {0}
  BY Zenon, <1>1, SeqTypes, HeadOf DEF Hand
<1>4. /\ mAdvanceThread /\ faults \in Nat /\ bySeq[Hand] = l
      /\ advance = "check" /\ faults <= 1 => \A s \in mCompleteLedgers : s <= Hand
      /\ advance = "checkfill" /\ faults = 0 => \A s \in mCompleteLedgers : s <= PubSeq
      /\ advance = "checkfill" /\ faults <= 1 => \A s \in mCompleteLedgers : s <= PubSeq + 1
      /\ faults <= 1 => \A s \in mCompleteLedgers : s + 1 \in mCompleteLedgers =>
                          bySeq[s] = Parent[bySeq[s + 1]] \/ s + 1 = Hand
  BY Zenon, <1>1 DEF ChainInv, TopInv, LinkInv, Publishing
<1>5. TopInv'
  BY <1>1, <1>2, <1>4 DEF TopInv, Publishing
<1>6. ASSUME NEW s \in mCompleteLedgers', s + 1 = Hand PROVE bySeq[s] = Parent[l]
  <2>1. s \in mCompleteLedgers /\ s \in Nat \ {0} /\ s = SeqNo[l] - 1 /\ s < SeqNo[l]
    BY <1>1, <1>3, <1>6
  <2>2. SUFFICES ASSUME bySeq[s] # Parent[l] PROVE s \in Mismatched(l)
    <3>1. Head(pubLedgers) = l
      BY Zenon, <1>1, HeadOf
    <3>2. bySeq[s] # Parent[l] => mCompleteLedgers' = mCompleteLedgers \ Mismatched(l)
      BY Zenon, <2>1, <3>1 DEF CheckPrevious
    <3> QED BY Zenon, <1>6, <3>2
  <2>3. Parent[l] = HashAt[l][s]
    <3>1. SeqNo[l] \in 2 .. SeqNo[l]
      BY ONLY <1>3, <2>1
    <3> QED BY <1>3, <2>1, <3>1, LedgersAssumption
  <2>4. ASSUME NEW t \in mCompleteLedgers, t < SeqNo[l], bySeq[t] = HashAt[l][t] PROVE t < s
    <3>1. t # s
      BY Zenon, <2>2, <2>3, <2>4
    <3> HIDE DEF l
    <3> QED BY <1>3, <2>1, <2>4, <3>1
  <2> QED BY Zenon, <2>1, <2>4 DEF Mismatched
<1>7. LinkInv'
  BY <1>1, <1>4, <1>6 DEF LinkInv
<1> QED BY <1>5, <1>7 DEF ChainInv

\* Publishing makes the ledger in hand mPubLedger, with nothing marked above it.
LEMMA PubKeepsChain ==
  ASSUME Inv, ChainInv, PubLedger
  PROVE ChainInv'
<1> DEFINE l == pubLedgers[1]
<1>1. /\ UNCHANGED <<faults, mAdvanceThread, mCompleteLedgers, bySeq>>
      /\ advance = "publishing" /\ mPubLedger' = l /\ pubLedgers' = Tail(pubLedgers)
      /\ IF Len(pubLedgers) > 1 THEN advance' = "publish" ELSE advance' = "end"
  BY HeadOf DEF PubLedger
<1>2. /\ Hand \in Nat /\ l \in Ledgers /\ \A s \in mCompleteLedgers : s \in Nat
      /\ PubSeq \in Nat
  BY Zenon, <1>1, SeqTypes, HeadOf DEF Hand
<1>3. PubSeq' = Hand /\ mPubLedger' # None
  BY Zenon, <1>1, <1>2, LedgersAssumption DEF Hand, PubSeq, SeqOrZero
<1>4. /\ mAdvanceThread /\ faults \in Nat
      /\ faults <= 1 => \A s \in mCompleteLedgers : s <= Hand
      /\ faults <= 1 => \A s \in mCompleteLedgers : s + 1 \in mCompleteLedgers =>
                          bySeq[s] = Parent[bySeq[s + 1]]
  BY <1>1 DEF ChainInv, TopInv, LinkInv, Publishing
<1>5. ASSUME advance' = "publish" PROVE Hand' = Hand + 1
  <2>1. Len(pubLedgers) > 1 /\ pubLedgers \in Seq(Ledgers)
    BY <1>1, <1>5 DEF Inv, TypeInv
  <2>2. pubLedgers'[1] = pubLedgers[2] /\ 1 \in 1 .. Len(pubLedgers) /\ 2 \in 1 .. Len(pubLedgers)
    BY <1>1, <2>1
  <2>3. InLine
    <3>1. Jump => Len(pubLedgers) = 1
      BY DEF Jump
    <3> QED BY <1>1, <2>1, <3>1 DEF Inv, OrderInv
  <2>4. SeqNo[pubLedgers[1]] = PubSeq + 1 /\ SeqNo[pubLedgers[2]] = PubSeq + 2
    BY <2>2, <2>3 DEF InLine
  <2> QED BY <1>2, <2>2, <2>4 DEF Hand
<1>6. LinkInv'
  BY <1>1, <1>4 DEF LinkInv
<1>7. /\ faults = 0 => \A s \in mCompleteLedgers : s < Hand + 1 /\ s <= Hand
      /\ faults <= 1 => \A s \in mCompleteLedgers : s <= Hand + 1
  BY <1>2, <1>4
<1>8. TopInv'
  BY <1>1, <1>3, <1>4, <1>5, <1>7 DEF TopInv, Publishing
<1> QED BY <1>6, <1>8 DEF ChainInv

\* The first exception finds the sequence of the ledger in hand not marked, or marked
\* and checked.
LEMMA ThrowKeepsChain ==
  ASSUME Inv, ChainInv, AdvanceThrows
  PROVE ChainInv'
<1> DEFINE l == pubLedgers[1]
<1>1. /\ UNCHANGED <<mPubLedger, mCompleteLedgers>> /\ faults' = faults + 1
      /\ advance \in {"publish", "fill", "publishing"} /\ advance' = "none"
      /\ IF advance # "publishing" THEN bySeq' = [bySeq EXCEPT ![Hand] = l] ELSE bySeq' = bySeq
  BY Zenon, HeadOf DEF AdvanceThrows, ThreadEnds, Hand
<1>2. /\ Hand \in Nat /\ Hand \in Seqs /\ \A s \in mCompleteLedgers : s \in Nat /\ s \in Seqs
      /\ PubSeq \in Nat /\ PubSeq' = PubSeq /\ mPubLedger # None
  BY <1>1, SeqTypes DEF PubSeq, SeqOrZero, Inv, TypeInv
<1>3. /\ faults \in Nat /\ faults' \in Nat /\ faults' # 0
      /\ faults' <= 1 => faults = 0 /\ faults <= 1
  BY <1>1 DEF ChainInv, TopInv
<1>4. ASSUME faults = 0
      PROVE /\ \A s \in mCompleteLedgers : s <= PubSeq + 1
            /\ advance # "publishing" => Hand \notin mCompleteLedgers
            /\ \A s \in mCompleteLedgers : s + 1 \in mCompleteLedgers =>
                  bySeq[s] = Parent[bySeq[s + 1]]
  <2>1. /\ advance = "publish" => \A s \in mCompleteLedgers : s < Hand
        /\ advance = "publishing" => \A s \in mCompleteLedgers : s <= Hand
        /\ advance = "fill" => \A s \in mCompleteLedgers : s <= PubSeq
        /\ advance = "fill" => Hand \notin mCompleteLedgers
        /\ \A s \in mCompleteLedgers : s + 1 \in mCompleteLedgers =>
              bySeq[s] = Parent[bySeq[s + 1]]
    BY <1>1, <1>3, <1>4 DEF ChainInv, TopInv, LinkInv, Publishing
  <2>2. advance # "fill" => Hand = PubSeq \/ Hand = PubSeq + 1
    BY Zenon, <1>1, HandNearPub DEF Publishing
  <2> QED BY <1>1, <1>2, <2>1, <2>2
<1>5. TopInv'
  BY Zenon, <1>1, <1>2, <1>3, <1>4 DEF TopInv, Publishing
<1>6. \A s \in Seqs : bySeq'[s] = bySeq[s] \/ (s = Hand /\ advance # "publishing")
  BY Zenon, <1>1 DEF Inv, TypeInv
<1>7. LinkInv'
  BY <1>1, <1>2, <1>3, <1>4, <1>6 DEF LinkInv
<1> QED BY <1>5, <1>7 DEF ChainInv

\* Every step keeps the chain.
LEMMA NextChain == Inv /\ ChainInv /\ [Next]_vars => ChainInv'
<1> SUFFICES ASSUME Inv, ChainInv, [Next]_vars PROVE ChainInv'
  OBVIOUS
<1>1. CASE \/ \E l \in Ledgers : CheckAccept(l) \/ SwitchLedgers(l) \/ LADispatch(l)
           \/ ConsensusBuilt \/ \E S \in SUBSET Nodes : CheckSavedUp(S)
  BY <1>1, AcceptingSteps, AcceptsKeepsChain DEF Inv
<1>2. CASE \/ \E v \in AllValidations : AddValidation(v)
           \/ \E l \in Ledgers : StartBuilding(l) \/ AcquireDone(l) \/ AcquireFails(l)
           \/ \E fails \in BOOLEAN : StoreBuilt(fails)
           \/ UNCHANGED vars
  BY <1>2, OthersKeepChain
<1>3. CASE Advance \/ AdvanceThrows
  BY <1>3, LoopKeepsChain, FindKeepsChain, FillKeepsChain, SetFullKeepsChain, CheckKeepsChain,
     PubKeepsChain, ThrowKeepsChain DEF Advance
<1> QED BY <1>1, <1>2, <1>3 DEF Next

\* Forks, jumps over a gap, the filling of the history and an exception at any
\* place of the advance thread leave the complete ledgers a chain: two neighbours in
\* mCompleteLedgers are parent and child, up to the second fault.
THEOREM CompleteStaysChain == Spec => []CompleteIsChain
<1>1. Inv /\ ChainInv => CompleteIsChain
  BY DEF Inv, TypeInv, ChainInv, LinkInv, CompleteIsChain
<1> QED BY <1>1, InitChain, NextChain, InvHolds, PTL DEF Spec
----
(* Publishing does not stall: what its catching up rests on. *)

\* The ledger that is to be published next.
NextToPublish == HashAt[mValidLedger][PubSeq + 1]

\* Without a fault, a thread that left while valid ledgers were still to be
\* published left the next of them to an acquisition, or to the job after it, which
\* starts the thread again.
NotStalled ==
  faults = 0 /\ ~mAdvanceThread /\ ValidSeq > PubSeq => NextToPublish \in acquiring \cup dispatch

\* A thread at the end of its loop with nothing more to do is as good as gone; and
\* what it looked for was the valid ledger, or somebody has asked for more work.
StallInv ==
  /\ mAdvanceThread <=> advance # "none"
  /\ faults = 0 =>
       /\ advance = "none" /\ mValidLedger # None => ~mAdvanceWork
       /\ advance = "find" /\ ~mAdvanceWork => pubLedgers[1] = mValidLedger
       /\ advance \in {"none", "end"} /\ ~mAdvanceWork /\ ValidSeq > PubSeq
            => NextToPublish \in acquiring \cup dispatch

\* A step that leaves the thread alone and gives up no acquisition.
LEMMA StallKept ==
  ASSUME StallInv, UNCHANGED <<mValidLedger, mPubLedger, advanceVars, pubLedgers>>,
         faults' = 0 => faults = 0, acquiring \cup dispatch \subseteq acquiring' \cup dispatch'
  PROVE StallInv'
<1>1. ValidSeq' = ValidSeq /\ PubSeq' = PubSeq /\ NextToPublish' = NextToPublish
  BY Zenon DEF ValidSeq, PubSeq, SeqOrZero, NextToPublish
<1> QED BY Zenon, <1>1 DEF StallInv, advanceVars

\* A step that asks for work while there is a valid ledger leaves a thread to do it.
LEMMA StallAsked ==
  ASSUME StallInv, NEW l, l # None, TryAdvance(l)
  PROVE StallInv'
<1>1. mAdvanceWork' /\ advance' # "none" /\ mAdvanceThread'
  BY Zenon DEF StallInv, TryAdvance, AskForWork
<1> QED BY Zenon, <1>1 DEF StallInv

\* Accepting a ledger, or not, and the job after an acquisition.
LEMMA AcceptsKeepsStall ==
  ASSUME Inv, StallInv,
         \/ \E l \in Ledgers : CheckAccept(l) \/ SwitchLedgers(l) \/ LADispatch(l)
         \/ ConsensusBuilt \/ \E S \in SUBSET Nodes : CheckSavedUp(S)
  PROVE StallInv'
<1>1. ASSUME NEW l \in Ledgers, Accept(l) PROVE StallInv'
  BY Zenon, <1>1, StallAsked, LedgersAssumption DEF Accept
<1>2. ASSUME UNCHANGED <<acceptVars, advanceVars, pubLedgers, faults, dispatch>>,
             acquiring \subseteq acquiring'
      PROVE StallInv'
  BY Zenon, <1>2, StallKept DEF acceptVars
<1>3. ASSUME NEW l \in Ledgers, CheckHash(l), UNCHANGED <<pubLedgers, faults, dispatch>>
      PROVE StallInv'
  <2>1. \/ Accept(l)
        \/ UNCHANGED <<acceptVars, advanceVars>> /\ acquiring \subseteq acquiring'
    BY Zenon, <1>3 DEF CheckHash, CheckLedger, FindCreate, acquireVars
  <2> QED BY Zenon, <1>1, <1>2, <1>3, <2>1
<1>4. ASSUME NEW l \in Ledgers, CheckAccept(l) PROVE StallInv'
  BY Zenon, <1>3, <1>4 DEF CheckAccept, pubVars
<1>5. ASSUME NEW l \in Ledgers, SwitchLedgers(l) PROVE StallInv'
  BY Zenon, <1>1, <1>5 DEF SwitchLedgers
<1>6. ASSUME NEW l \in Ledgers, LADispatch(l) PROVE StallInv'
  <2>1. CASE Accept(l)
    BY Zenon, <1>1, <2>1
  <2>2. CASE TryAdvance(mValidLedger) /\ UNCHANGED acceptVars
    <3>1. CASE mValidLedger # None
      BY Zenon, <2>2, <3>1, StallAsked
    <3>2. CASE mValidLedger = None
      <4>1. /\ mAdvanceWork' /\ UNCHANGED <<mAdvanceThread, advance, mValidLedger>>
        BY Zenon, <2>2, <3>2 DEF TryAdvance, AskForWork, acceptVars
      <4> QED BY Zenon, <3>2, <4>1 DEF StallInv
    <3> QED BY Zenon, <3>1, <3>2
  <2> QED BY Zenon, <1>6, <2>1, <2>2 DEF LADispatch
<1>7. CASE ConsensusBuilt
  <2>1. built.ledger \in Ledgers
    BY Zenon, <1>7 DEF ConsensusBuilt, Inv, TypeInv
  <2>2. \/ Accept(built.ledger)
        \/ UNCHANGED <<acceptVars, advanceVars>>
    BY Zenon, <1>7 DEF ConsensusBuilt, CheckLedger
  <2>3. UNCHANGED <<pubLedgers, faults, dispatch, acquiring>>
    BY Zenon, <1>7 DEF ConsensusBuilt, pubVars, acquireVars
  <2> QED BY Zenon, <1>1, <1>2, <2>1, <2>2, <2>3
<1>8. ASSUME NEW S \in SUBSET Nodes, CheckSavedUp(S) PROVE StallInv'
  <2>1. \/ UNCHANGED <<acceptVars, advanceVars, acquireVars>>
        \/ \E l \in Ledgers : CheckHash(l)
    BY Zenon, <1>8 DEF CheckSavedUp, SavedUp
  <2>2. UNCHANGED <<pubLedgers, faults, dispatch>>
    BY Zenon, <1>8 DEF CheckSavedUp, pubVars
  <2> QED BY Zenon, <1>2, <1>3, <2>1, <2>2 DEF acquireVars
<1> QED BY Zenon, <1>4, <1>5, <1>6, <1>7, <1>8

\* Our consensus and the acquisitions.
LEMMA OthersKeepStall ==
  ASSUME ChainInv, StallInv,
         \/ \E v \in AllValidations : AddValidation(v)
         \/ \E l \in Ledgers : StartBuilding(l) \/ AcquireDone(l) \/ AcquireFails(l)
         \/ \E fails \in BOOLEAN : StoreBuilt(fails)
         \/ UNCHANGED vars
  PROVE StallInv'
<1>1. UNCHANGED <<mValidLedger, mPubLedger, advanceVars, pubLedgers>>
  BY Zenon DEF AddValidation, StartBuilding, AcquireDone, AcquireFails, StoreBuilt, vars, acceptVars, pubVars
<1>2. faults \in Nat
  BY Zenon DEF ChainInv, TopInv
<1>3. CASE \E l \in Ledgers : AcquireFails(l)
  <2>1. faults' # 0
    BY <1>2, <1>3 DEF AcquireFails
  <2> QED BY Zenon, <1>1, <2>1 DEF StallInv, advanceVars
<1>4. CASE ~\E l \in Ledgers : AcquireFails(l)
  <2>1. acquiring \cup dispatch \subseteq acquiring' \cup dispatch'
    BY Zenon, <1>4 DEF AddValidation, StartBuilding, AcquireDone, StoreBuilt, vars, acquireVars
  <2>2. faults' = 0 => faults = 0
    BY <1>2, <1>4 DEF AddValidation, StartBuilding, AcquireDone, StoreBuilt, vars
  <2> QED BY Zenon, <1>1, <2>1, <2>2, StallKept
<1> QED BY Zenon, <1>3, <1>4

\* The thread takes the valid ledger, or leaves when it is published.
LEMMA LoopKeepsStall ==
  ASSUME Inv, StallInv, StartAdvance \/ EndLoop
  PROVE StallInv'
<1>1. UNCHANGED <<mValidLedger, acquiring, dispatch, faults>>
  BY Zenon DEF StartAdvance, EndLoop, acquireVars, restVars
<1>2. PubSeq \in Nat /\ ValidSeq \in Nat /\ mValidLedger \in Ledgers \cup {None}
  BY Zenon, LedgersAssumption DEF Inv, TypeInv, PubSeq, ValidSeq, SeqOrZero
<1>3. CASE Loop
  <2>1. CASE advance' = "publish" /\ UNCHANGED mAdvanceThread
    BY Zenon, <2>1 DEF StallInv, StartAdvance, EndLoop
  <2>2. CASE advance' = "find" /\ pubLedgers' = <<mValidLedger>> /\ UNCHANGED mAdvanceThread
    <3>1. pubLedgers'[1] = mValidLedger'
      BY Zenon, <1>1, <2>2
    <3>2. mAdvanceThread'
      BY Zenon, <2>2 DEF StallInv, StartAdvance, EndLoop
    <3> QED BY Zenon, <2>2, <3>1, <3>2 DEF StallInv
  <2>3. CASE ~(ValidSeq > PubSeq) /\ UNCHANGED mPubLedger
    <3>1. ~(ValidSeq > PubSeq)' /\ mAdvanceWork' = FALSE
      BY Zenon, <1>1, <1>3, <2>3 DEF Loop, ValidSeq, PubSeq, SeqOrZero
    <3>2. \/ advance' = "history" /\ mAdvanceThread' = mAdvanceThread /\ mAdvanceThread
          \/ advance' = "none" /\ mAdvanceThread' = FALSE
          \/ advance' \in {"publish", "find"} /\ mAdvanceThread' = mAdvanceThread /\ mAdvanceThread
      BY Zenon, <1>3 DEF Loop, ThreadEnds, StallInv, StartAdvance, EndLoop
    <3>3. advance' # "find"
      BY Zenon, <1>3, <2>3 DEF Loop, ThreadEnds
    <3> QED BY Zenon, <3>1, <3>2, <3>3 DEF StallInv
  <2> QED BY Zenon, <1>3, <2>1, <2>2, <2>3 DEF Loop
<1>4. CASE ~mAdvanceWork /\ advance = "end" /\ ThreadEnds /\ UNCHANGED <<mAdvanceWork, mPubLedger>>
  <2>1. ValidSeq' = ValidSeq /\ PubSeq' = PubSeq /\ NextToPublish' = NextToPublish
    BY Zenon, <1>1, <1>4 DEF ValidSeq, PubSeq, SeqOrZero, NextToPublish
  <2> QED BY Zenon, <1>1, <1>4, <2>1 DEF StallInv, ThreadEnds
<1> QED BY Zenon, <1>3, <1>4 DEF StartAdvance, EndLoop

\* A search that finds nothing to publish asks for the next ledger.
LEMMA FindKeepsStall ==
  ASSUME Inv, StallInv, FindNewLedgersToPublish
  PROVE StallInv'
<1> DEFINE val == Head(pubLedgers)
           wanted == PubSeq + 1 .. SeqNo[val]
           missing == {s \in wanted : HashAt[val][s] \notin have \cup {val}}
           first == {HashAt[val][s] : s \in {t \in missing :
                                       Cardinality({u \in missing : u <= t}) < 4}}
           upto == IF missing = {} THEN SeqNo[val] ELSE Min(missing) - 1
<1>1. /\ UNCHANGED <<mValidLedger, mPubLedger, faults, mAdvanceThread, mAdvanceWork>>
      /\ advance = "find" /\ acquiring' = acquiring \cup first
      /\ advance' = IF upto = PubSeq THEN "end" ELSE "publish"
  BY Zenon DEF FindNewLedgersToPublish
<1>2. /\ pubLedgers \in Seq(Ledgers) /\ Len(pubLedgers) = 1 /\ SeqNo[pubLedgers[1]] > PubSeq
      /\ mPubLedger \in Ledgers \cup {None}
  BY Zenon, <1>1 DEF Inv, TypeInv, OrderInv
<1>3. /\ val = pubLedgers[1] /\ val \in Ledgers /\ PubSeq \in Nat /\ SeqNo[val] \in Nat
      /\ SeqNo[val] > PubSeq
  <2>1. SeqNo \in [Ledgers -> Nat \ {0}]
    BY Zenon, LedgersAssumption
  <2>2. PubSeq \in Nat
    BY Zenon, <1>2, <2>1 DEF PubSeq, SeqOrZero
  <2>3. val = pubLedgers[1] /\ val \in Ledgers
    BY <1>2
  <2> HIDE DEF val
  <2> QED BY Zenon, <1>2, <2>1, <2>2, <2>3
<1> HIDE DEF val
<1>4. CASE advance' = "end" /\ ~mAdvanceWork
  <2>1. upto = PubSeq
    BY Zenon, <1>1, <1>4
  <2>2. missing # {} /\ Min(missing) - 1 = PubSeq
    <3> HIDE DEF missing
    <3> QED BY <1>3, <2>1
  <2>3. missing \in SUBSET Nat
    BY <1>3
  <2>4. Min(missing) \in missing /\ \A x \in missing : Min(missing) <= x
    <3> HIDE DEF missing
    <3> QED BY Zenon, <2>2, <2>3, MinOf
  <2>5. Min(missing) = PubSeq + 1
    <3>1. Min(missing) \in Nat
      BY Zenon, <2>3, <2>4
    <3> HIDE DEF missing
    <3> QED BY <1>3, <2>2, <3>1
  <2>6. {u \in missing : u <= PubSeq + 1} = {PubSeq + 1}
    <3> HIDE DEF missing
    <3>1. ASSUME NEW u \in missing, u <= PubSeq + 1 PROVE u = PubSeq + 1
      <4>1. u \in Nat /\ PubSeq + 1 <= u
        BY Zenon, <2>3, <2>4, <2>5, <3>1
      <4> QED BY <1>3, <3>1, <4>1
    <3>2. PubSeq + 1 \in missing
      BY Zenon, <2>4, <2>5
    <3>3. PubSeq + 1 <= PubSeq + 1
      BY <1>3
    <3> QED BY Zenon, <3>1, <3>2, <3>3
  <2>7. Cardinality({u \in missing : u <= PubSeq + 1}) < 4
    <3>1. Cardinality({PubSeq + 1}) = 1
      BY Zenon, FS_Singleton
    <3> HIDE DEF missing
    <3> QED BY <2>6, <3>1
  <2>8. HashAt[val][PubSeq + 1] \in first
    <3> HIDE DEF missing
    <3> QED BY Zenon, <2>4, <2>5, <2>7
  <2>9. faults = 0 => val = mValidLedger
    BY Zenon, <1>1, <1>3, <1>4 DEF StallInv
  <2>10. faults' = 0 => NextToPublish' \in acquiring'
    <3>1. NextToPublish' = NextToPublish
      BY Zenon, <1>1 DEF NextToPublish, PubSeq, SeqOrZero
    <3> HIDE DEF first
    <3> QED BY Zenon, <1>1, <2>8, <2>9, <3>1 DEF NextToPublish
  <2> HIDE DEF first, upto
  <2> QED BY Zenon, <1>1, <1>4, <2>10 DEF StallInv
<1>5. CASE advance' = "publish" \/ (advance' = "end" /\ mAdvanceWork)
  <2> HIDE DEF first, upto
  <2> QED BY Zenon, <1>1, <1>5 DEF StallInv
<1> HIDE DEF first, upto
<1> QED BY Zenon, <1>1, <1>4, <1>5

\* Filling the history goes on to publish if there is something to publish.
LEMMA FillKeepsStall ==
  ASSUME Inv, StallInv, FillHistory
  PROVE StallInv'
<1>1. UNCHANGED <<mValidLedger, mPubLedger, mAdvanceThread, faults>> /\ advance = "history"
  BY Zenon DEF FillHistory
<1>2. \/ advance' = "end" /\ mAdvanceWork'
      \/ advance' = "fill"
      \/ advance' = "end" /\ mAdvanceWork' = (mAdvanceWork \/ ValidSeq # PubSeq)
  BY Zenon DEF FillHistory
<1>3. ValidSeq' = ValidSeq /\ PubSeq' = PubSeq /\ ValidSeq \in Nat /\ PubSeq \in Nat
  BY Zenon, <1>1, LedgersAssumption DEF Inv, TypeInv, PubSeq, ValidSeq, SeqOrZero
<1>4. ValidSeq = PubSeq => ~(ValidSeq > PubSeq)
  BY <1>3
<1> QED BY Zenon, <1>1, <1>2, <1>3, <1>4 DEF StallInv

\* Storing and publishing, up to an exception.
LEMMA PublishKeepsStall ==
  ASSUME ChainInv, StallInv, SetFullLedger \/ CheckPrevious \/ PubLedger \/ AdvanceThrows
  PROVE StallInv'
<1>1. CASE SetFullLedger \/ CheckPrevious \/ PubLedger
  <2>1. /\ mAdvanceThread' = mAdvanceThread /\ advance # "none"
        /\ advance' \in {"check", "checkfill", "publishing", "publish"}
             \/ (advance' = "end" /\ mAdvanceWork')
    BY Zenon, <1>1 DEF SetFullLedger, CheckPrevious, PubLedger
  <2> QED BY Zenon, <2>1 DEF StallInv
<1>2. CASE AdvanceThrows
  <2>1. faults' # 0
    BY <1>2 DEF AdvanceThrows, ChainInv, TopInv
  <2> QED BY Zenon, <1>2, <2>1 DEF AdvanceThrows, ThreadEnds, StallInv
<1> QED BY Zenon, <1>1, <1>2

\* For any tree of ledgers and any course of validations and acquisitions without a
\* fault: whenever the advance thread is not there and a valid ledger is not yet
\* published, the next one to publish is on its way, and brings the thread back.
THEOREM NeverStalls == Spec => []NotStalled
<1>1. Init => StallInv
  <2> SUFFICES ASSUME Init PROVE StallInv
    OBVIOUS
  <2>1. ValidSeq = PubSeq /\ ValidSeq \in Nat
    BY LedgersAssumption DEF Init, ValidSeq, PubSeq, SeqOrZero
  <2>2. ~(ValidSeq > PubSeq)
    BY <2>1
  <2> QED BY Zenon, <2>2 DEF Init, StallInv
<1>2. Inv /\ ChainInv /\ StallInv /\ [Next]_vars => StallInv'
  <2> SUFFICES ASSUME Inv, ChainInv, StallInv, [Next]_vars PROVE StallInv'
    OBVIOUS
  <2>1. CASE \/ \E l \in Ledgers : CheckAccept(l) \/ SwitchLedgers(l) \/ LADispatch(l)
             \/ ConsensusBuilt \/ \E S \in SUBSET Nodes : CheckSavedUp(S)
    BY Zenon, <2>1, AcceptsKeepsStall
  <2>2. CASE \/ \E v \in AllValidations : AddValidation(v)
             \/ \E l \in Ledgers : StartBuilding(l) \/ AcquireDone(l) \/ AcquireFails(l)
             \/ \E fails \in BOOLEAN : StoreBuilt(fails)
             \/ UNCHANGED vars
    BY Zenon, <2>2, OthersKeepStall
  <2>3. CASE Advance \/ AdvanceThrows
    BY Zenon, <2>3, LoopKeepsStall, FindKeepsStall, FillKeepsStall, PublishKeepsStall DEF Advance
  <2> QED BY Zenon, <2>1, <2>2, <2>3 DEF Next
<1>3. Inv /\ StallInv => NotStalled
  <2>1. ASSUME Inv, faults = 0, ~mAdvanceThread, ValidSeq > PubSeq
        PROVE mValidLedger # None
    <3>1. CASE mValidLedger = None
      <4>1. ValidSeq = 0 /\ PubSeq \in Nat
        BY Zenon, <2>1, <3>1, LedgersAssumption DEF Inv, TypeInv, ValidSeq, PubSeq, SeqOrZero
      <4> QED BY <2>1, <4>1
    <3> QED BY Zenon, <3>1
  <2> QED BY Zenon, <2>1 DEF StallInv, NotStalled
<1> QED BY <1>1, <1>2, <1>3, InitChain, NextChain, InvHolds, PTL DEF Spec
====

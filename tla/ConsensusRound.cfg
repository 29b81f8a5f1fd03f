CONSTANTS
  p1 = p1
  p2 = p2
  v1 = v1
  A = A
  B = B
  t1 = t1
  t2 = t2
  t3 = t3
  f1 = f1
  Tx <- TwoTx
  Peers <- TwoPeers
  Validators <- OneValidator
  Ledgers <- OneLedger
  Sets <- SplitSets
  CloseTimes <- OneTime
  Resolution <- Res
  TargetProposers = 2
  PrevMs = 10000
  Instants <- ShortClock
  VoteTx <- FeeTx
  FlagLedgers <- FlagA
  LogInfo = TRUE
  MaxSeq = 1
  MaxProposals = 2
  MaxViewChanges = 0
  Unreliable = TRUE
  NoDispute = NoDispute
SYMMETRY Symmetry
SPECIFICATION Spec
INVARIANTS VotesArePeers VotesFollowSets OurVoteIsPosition NoEquivocation
CHECK_DEADLOCK FALSE
